---- MODULE Spec2Model ----
(***************************************************************************)
(* Verification model of the stock_cli agent runtime.                      *)
(*                                                                         *)
(*   - XMLStreamFilter (agent/xml_filter.py): the character-level tag      *)
(*     state machine, modelled per character.                              *)
(*   - AgentKernel (agent/kernel.py): the ReAct loop, the streaming LLM    *)
(*     call, payload parsing and the per-iteration dispatch.               *)
(*   - session lock, inbox listeners and _run_agent_with_interrupt         *)
(*     (core/session_lock.py, monitors/session_inbox.py,                   *)
(*     triggers/session_inbox.py, core/interaction.py).                    *)
(*   - MCPServerManager tool cache (tools/mcp_server_manager.py).          *)
(*                                                                         *)
(* Text is a sequence of one-character strings.  Each subsystem has its    *)
(* own specification (SpecKernel, SpecInbox, SpecGateway); the variables   *)
(* of the other subsystems stay at their initial values.                   *)
(***************************************************************************)
EXTENDS Integers, Sequences, FiniteSets, TLC

\* ------------------------------------------------------------------------
\* Bounds of the model
\* ------------------------------------------------------------------------
\* largest task.max_iterations explored
MaxIter == 3
\* the clock stops advancing at this tick
MaxTime == 3

\* ------------------------------------------------------------------------
\* Characters and strings
\* ------------------------------------------------------------------------
WS == {" ", "\t", "\n", "\r"}

Digits == {"0", "1", "2", "3", "4", "5", "6", "7", "8", "9"}

\* the upper-case letters and their lower-case forms
LowerOf ==
    [c \in {"A", "B", "C", "D", "E", "F", "G", "H", "I", "J", "K", "L", "M",
             "N", "O", "P", "Q", "R", "S", "T", "U", "V", "W", "X", "Y", "Z"} |->
        CASE c = "A" -> "a" [] c = "B" -> "b" [] c = "C" -> "c" [] c = "D" -> "d"
          [] c = "E" -> "e" [] c = "F" -> "f" [] c = "G" -> "g" [] c = "H" -> "h"
          [] c = "I" -> "i" [] c = "J" -> "j" [] c = "K" -> "k" [] c = "L" -> "l"
          [] c = "M" -> "m" [] c = "N" -> "n" [] c = "O" -> "o" [] c = "P" -> "p"
          [] c = "Q" -> "q" [] c = "R" -> "r" [] c = "S" -> "s" [] c = "T" -> "t"
          [] c = "U" -> "u" [] c = "V" -> "v" [] c = "W" -> "w" [] c = "X" -> "x"
          [] c = "Y" -> "y" [] c = "Z" -> "z"]

\* str.lower() on one character
Lower(c) == IF c \in DOMAIN LowerOf THEN LowerOf[c] ELSE c

\* the element of a singleton set; in Once({e(x) : x \in {v}}) the value v
\* is computed once, whatever the number of places where e uses x
Once(S) == CHOOSE x \in S : TRUE

TagThinking ==
    <<"t", "h", "i", "n", "k", "i", "n", "g">>

TagAction ==
    <<"a", "c", "t", "i", "o", "n">>

TagFinalAnswer ==
    <<"f", "i", "n", "a", "l", "_", "a", "n", "s", "w", "e", "r">>

KeyTool ==
    <<"t", "o", "o", "l">>

KeyArguments ==
    <<"a", "r", "g", "u", "m", "e", "n", "t", "s">>

KeyTarget ==
    <<"t", "a", "r", "g", "e", "t">>

KeyMessage ==
    <<"m", "e", "s", "s", "a", "g", "e">>

FenceJson ==
    <<"j", "s", "o", "n">>

\* <action>{"tool":"t","arguments":{"x":1}}</action>
TxtAction ==
    <<"<", "a", "c", "t", "i", "o", "n", ">", "{", "\"", "t", "o", "o", "l", "\"", ":",
    "\"", "t", "\"", ",", "\"", "a", "r", "g", "u", "m", "e", "n", "t", "s", "\"", ":",
    "{", "\"", "x", "\"", ":", "1", "}", "}", "<", "/", "a", "c", "t", "i", "o", "n",
    ">">>

\* <final_answer>hi</final_answer>
TxtFinal ==
    <<"<", "f", "i", "n", "a", "l", "_", "a", "n", "s", "w", "e", "r", ">", "h", "i",
    "<", "/", "f", "i", "n", "a", "l", "_", "a", "n", "s", "w", "e", "r", ">">>

\* <thinking>hm</thinking>
TxtThinking ==
    <<"<", "t", "h", "i", "n", "k", "i", "n", "g", ">", "h", "m", "<", "/", "t", "h",
    "i", "n", "k", "i", "n", "g", ">">>

\* <action>{"tool"</action>
TxtBadJson ==
    <<"<", "a", "c", "t", "i", "o", "n", ">", "{", "\"", "t", "o", "o", "l", "\"", "<",
    "/", "a", "c", "t", "i", "o", "n", ">">>

\* <action>[1]</action>
TxtArray ==
    <<"<", "a", "c", "t", "i", "o", "n", ">", "[", "1", "]", "<", "/", "a", "c", "t",
    "i", "o", "n", ">">>

\* <action>{"a":1}</action>
TxtNoTool ==
    <<"<", "a", "c", "t", "i", "o", "n", ">", "{", "\"", "a", "\"", ":", "1", "}", "<",
    "/", "a", "c", "t", "i", "o", "n", ">">>

\* <action>{"tool":"t","arguments":1}</action>
TxtArgsNum ==
    <<"<", "a", "c", "t", "i", "o", "n", ">", "{", "\"", "t", "o", "o", "l", "\"", ":",
    "\"", "t", "\"", ",", "\"", "a", "r", "g", "u", "m", "e", "n", "t", "s", "\"", ":",
    "1", "}", "<", "/", "a", "c", "t", "i", "o", "n", ">">>

\* <action>{"tool":"t","arguments":{}}</action><final_answer>hi</final_answer>
TxtActionFinal ==
    <<"<", "a", "c", "t", "i", "o", "n", ">", "{", "\"", "t", "o", "o", "l", "\"", ":",
    "\"", "t", "\"", ",", "\"", "a", "r", "g", "u", "m", "e", "n", "t", "s", "\"", ":",
    "{", "}", "}", "<", "/", "a", "c", "t", "i", "o", "n", ">", "<", "f", "i", "n",
    "a", "l", "_", "a", "n", "s", "w", "e", "r", ">", "h", "i", "<", "/", "f", "i",
    "n", "a", "l", "_", "a", "n", "s", "w", "e", "r", ">">>

\* <action>{"tool":"t","arguments":{}}</action><communication>{"target":"B","message":"m"}</communication>
TxtActionComm ==
    <<"<", "a", "c", "t", "i", "o", "n", ">", "{", "\"", "t", "o", "o", "l", "\"", ":",
    "\"", "t", "\"", ",", "\"", "a", "r", "g", "u", "m", "e", "n", "t", "s", "\"", ":",
    "{", "}", "}", "<", "/", "a", "c", "t", "i", "o", "n", ">", "<", "c", "o", "m",
    "m", "u", "n", "i", "c", "a", "t", "i", "o", "n", ">", "{", "\"", "t", "a", "r",
    "g", "e", "t", "\"", ":", "\"", "B", "\"", ",", "\"", "m", "e", "s", "s", "a", "g",
    "e", "\"", ":", "\"", "m", "\"", "}", "<", "/", "c", "o", "m", "m", "u", "n", "i",
    "c", "a", "t", "i", "o", "n", ">">>


\* <communication>{"target":"B","message":"m"}</communication>
TxtComm ==
    <<"<", "c", "o", "m", "m", "u", "n", "i", "c", "a", "t", "i", "o", "n", ">", "{", "\"",
    "t", "a", "r", "g", "e", "t", "\"", ":", "\"", "B", "\"", ",", "\"", "m", "e", "s",
    "s", "a", "g", "e", "\"", ":", "\"", "m", "\"", "}", "<", "/", "c", "o", "m", "m",
    "u", "n", "i", "c", "a", "t", "i", "o", "n", ">">>
\* str.lstrip(): drop leading whitespace
LStrip(s) ==
    Once({ IF \A i \in 1..Len(t) : t[i] \in WS THEN <<>>
           ELSE SubSeq(t, CHOOSE i \in 1..Len(t) :
                              t[i] \notin WS /\ \A j \in 1..(i - 1) : t[j] \in WS,
                       Len(t))
         : t \in {s}})

\* str.rstrip(): drop trailing whitespace
RStrip(s) ==
    Once({ IF \A i \in 1..Len(t) : t[i] \in WS THEN <<>>
           ELSE SubSeq(t, 1, CHOOSE i \in 1..Len(t) :
                                 t[i] \notin WS /\ \A j \in (i + 1)..Len(t) : t[j] \in WS)
         : t \in {s}})

\* str.strip()
Strip(s) == RStrip(LStrip(s))

\* str.strip("<>"): drop leading and trailing angle brackets
StripAngles(s) ==
    Once({ IF \A i \in 1..Len(t) : t[i] \in {"<", ">"} THEN <<>>
           ELSE SubSeq(t,
                       CHOOSE i \in 1..Len(t) :
                           t[i] \notin {"<", ">"} /\ \A j \in 1..(i - 1) : t[j] \in {"<", ">"},
                       CHOOSE i \in 1..Len(t) :
                           t[i] \notin {"<", ">"} /\ \A j \in (i + 1)..Len(t) : t[j] \in {"<", ">"})
         : t \in {s}})

\* the first whitespace-delimited token of s, <<>> when s starts with
\* whitespace or is empty
TakeToken(s) ==
    Once({ IF \A i \in 1..Len(t) : t[i] \notin WS THEN t
           ELSE SubSeq(t, 1, (CHOOSE i \in 1..Len(t) :
                                  t[i] \in WS /\ \A j \in 1..(i - 1) : t[j] \notin WS) - 1)
         : t \in {s}})

LowerAll(s) == Once({[i \in 1..Len(text) |-> Lower(text[i])] : text \in {s}})

StartsWith(s, p) == Len(s) >= Len(p) /\ SubSeq(s, 1, Len(p)) = p

EndsWith(s, p) == Len(s) >= Len(p) /\ SubSeq(s, Len(s) - Len(p) + 1, Len(s)) = p

\* U+0060, written "BQ" because a string of the module cannot hold it
Backquote == "BQ"

Fence == <<Backquote, Backquote, Backquote>>

\* re.sub(r"^```(?:json)?\s*", "", s, flags=re.IGNORECASE)
StripFenceOpen(s) ==
    IF ~StartsWith(s, Fence) THEN s
    ELSE Once({ IF StartsWith(LowerAll(r), FenceJson)
                THEN LStrip(SubSeq(r, 5, Len(r)))
                ELSE LStrip(r)
              : r \in {SubSeq(s, 4, Len(s))}})

\* re.sub(r"\s*```$", "", s)
StripFenceClose(s) ==
    IF ~EndsWith(s, Fence) THEN s
    ELSE RStrip(SubSeq(s, 1, Len(s) - 3))

\* ------------------------------------------------------------------------
\* json.loads on the JSON subset the modelled provider emits: objects,
\* arrays, strings without escapes and unsigned integers, no whitespace
\* between tokens.  A value is a record tagged by t; a number keeps its
\* digits, an object is a function from keys to values (last key wins).
\* ------------------------------------------------------------------------
JFail == [ok |-> FALSE, pos |-> 0, val |-> [t |-> "none"]]

JOk(v, p) == [ok |-> TRUE, pos |-> p, val |-> v]

EmptyMap == [k \in {} |-> [t |-> "none"]]

MapPut(m, k, v) == [x \in DOMAIN m \cup {k} |-> IF x = k THEN v ELSE m[x]]

\* the position of the first quote at or after i, 0 when there is none
FindQuote(s, i) ==
    Once({ IF \A j \in from..Len(t) : t[j] # "\"" THEN 0
           ELSE CHOOSE j \in from..Len(t) :
                    t[j] = "\"" /\ \A h \in from..(j - 1) : t[h] # "\""
         : t \in {s}, from \in {i}})

\* the position after the run of digits that starts at i
DigitsEnd(s, i) ==
    Once({ IF \A j \in from..Len(t) : t[j] \in Digits THEN Len(t) + 1
           ELSE CHOOSE j \in from..Len(t) :
                    t[j] \notin Digits /\ \A h \in from..(j - 1) : t[h] \in Digits
         : t \in {s}, from \in {i}})

\* s[i-1] was the opening quote
ParseString(s, i) ==
    Once({ IF j = 0 THEN JFail
           ELSE JOk([t |-> "str", s |-> SubSeq(s, i, j - 1)], j + 1)
         : j \in {FindQuote(s, i)}})

ParseNumber(s, i) ==
    Once({ IF s[i] = "0" /\ j > i + 1 THEN JFail
           ELSE JOk([t |-> "num", s |-> SubSeq(s, i, j - 1)], j)
         : j \in {DigitsEnd(s, i)}})

RECURSIVE ParseValue(_, _)
RECURSIVE ParseMembers(_, _, _)
RECURSIVE ParseElements(_, _, _)

ParseValue(s, i) ==
    IF i > Len(s) THEN JFail
    ELSE IF s[i] = "{"
         THEN IF i + 1 <= Len(s) /\ s[i + 1] = "}"
              THEN JOk([t |-> "obj", m |-> EmptyMap], i + 2)
              ELSE ParseMembers(s, i + 1, EmptyMap)
    ELSE IF s[i] = "["
         THEN IF i + 1 <= Len(s) /\ s[i + 1] = "]"
              THEN JOk([t |-> "arr", a |-> <<>>], i + 2)
              ELSE ParseElements(s, i + 1, <<>>)
    ELSE IF s[i] = "\"" THEN ParseString(s, i + 1)
    ELSE IF s[i] \in Digits THEN ParseNumber(s, i)
    ELSE JFail

\* members of an object from position i on, m holds the members read so far;
\* k is the key read at i and v the value read after its colon
ParseMembers(s, i, m) ==
    IF i > Len(s) \/ s[i] # "\"" THEN JFail
    ELSE Once({
           IF ~k.ok \/ k.pos > Len(s) \/ s[k.pos] # ":" THEN JFail
           ELSE Once({
                  IF ~v.ok \/ v.pos > Len(s) THEN JFail
                  ELSE IF s[v.pos] = ","
                       THEN ParseMembers(s, v.pos + 1, MapPut(m, k.val.s, v.val))
                  ELSE IF s[v.pos] = "}"
                       THEN JOk([t |-> "obj", m |-> MapPut(m, k.val.s, v.val)], v.pos + 1)
                  ELSE JFail
                : v \in {ParseValue(s, k.pos + 1)}})
         : k \in {ParseString(s, i + 1)}})

\* elements of an array from position i on, a holds the elements read so far;
\* v is the element read at i
ParseElements(s, i, a) ==
    Once({
      IF ~v.ok \/ v.pos > Len(s) THEN JFail
      ELSE IF s[v.pos] = "," THEN ParseElements(s, v.pos + 1, Append(a, v.val))
      ELSE IF s[v.pos] = "]" THEN JOk([t |-> "arr", a |-> Append(a, v.val)], v.pos + 1)
      ELSE JFail
    : v \in {ParseValue(s, i)}})

\* json.loads(s): ok = FALSE stands for json.JSONDecodeError
JsonLoads(s) ==
    Once({Once({IF r.ok /\ r.pos = Len(text) + 1 THEN r ELSE JFail
                : r \in {ParseValue(text, 1)}})
          : text \in {s}})

\* bool(v) is False
Falsy(v) ==
    \/ v.t = "str" /\ v.s = <<>>
    \/ v.t = "num" /\ v.s = <<"0">>
    \/ v.t = "obj" /\ DOMAIN v.m = {}
    \/ v.t = "arr" /\ v.a = <<>>

\* str(v) of a parsed value; a container is rendered by a placeholder
Str(v) == IF v.t \in {"str", "num"} THEN v.s ELSE <<"{", "}">>

\* ------------------------------------------------------------------------
\* XMLStreamFilter (agent/xml_filter.py)
\* ------------------------------------------------------------------------
\* XMLStreamFilter.__init__; the buffer field only accumulates the input and
\* equals the kernel's collected text, so it is not kept twice
NewFilter == [state |-> "outside", in_tag |-> FALSE, current_tag |-> <<>>]

\* _extract_tag_name: ok = FALSE stands for the IndexError of split()[0]
ExtractTagName(tag) ==
    Once({ Once({ [ok |-> tok # <<>>, name |-> LowerAll(tok)]
                : tok \in {TakeToken(LStrip(IF a # <<>> /\ Head(a) = "/" THEN Tail(a) ELSE a))}})
         : a \in {StripAngles(tag)}})

\* _is_closing_tag
IsClosingTag(tag) == StartsWith(Strip(tag), <<"<", "/">>)

\* _is_opening_tag
IsOpeningTag(tag) == ~StartsWith(Strip(tag), <<"<", "/">>)

SectionOfState(st) ==
    CASE st = "in_thinking" -> "thinking"
      [] st = "in_action" -> "action"
      [] st = "in_final" -> "final_answer"
      [] OTHER -> "none"

\* the branch of process_chunk taken on the ">" that completes tag;
\* r is the running record of the call, tn the name of the tag
CloseTagNamed(r, tag, tn) ==
      IF ~tn.ok THEN [r EXCEPT !.raised = TRUE]
      ELSE IF IsOpeningTag(tag)
      THEN IF tn.name = TagThinking
           THEN [r EXCEPT !.f = [state |-> "in_thinking", in_tag |-> FALSE, current_tag |-> <<>>],
                          !.section = "thinking"]
           ELSE IF tn.name = TagAction
           THEN [r EXCEPT !.f = [state |-> "in_action", in_tag |-> FALSE, current_tag |-> <<>>],
                          !.section = "action"]
           ELSE IF tn.name = TagFinalAnswer
           THEN [r EXCEPT !.f = [state |-> "in_final", in_tag |-> FALSE, current_tag |-> <<>>],
                          !.section = "final_answer"]
           ELSE [r EXCEPT !.f = [r.f EXCEPT !.in_tag = FALSE, !.current_tag = <<>>]]
      ELSE IF IsClosingTag(tag)
              /\ \/ tn.name = TagThinking /\ r.f.state = "in_thinking"
                 \/ tn.name = TagAction /\ r.f.state = "in_action"
                 \/ tn.name = TagFinalAnswer /\ r.f.state = "in_final"
      THEN [r EXCEPT !.f = [state |-> "outside", in_tag |-> FALSE, current_tag |-> <<>>],
                     !.section = IF tn.name = TagFinalAnswer THEN "final_answer_end"
                                 ELSE IF tn.name = TagAction THEN "action_end"
                                 ELSE "thinking_end"]
      ELSE [r EXCEPT !.f = [r.f EXCEPT !.in_tag = FALSE, !.current_tag = <<>>]]

\* tag_name = self._extract_tag_name(self.current_tag), then the branches
CloseTag(r, tag) ==
    Once({CloseTagNamed(rec, t, tn) : rec \in {r}, t \in {tag}, tn \in {ExtractTagName(tag)}})

\* ProcessChar without the continue that ends the in-tag branch: inside a
\* section the characters of a tag are returned too
ProcessCharNoContinue(r, ch) ==
    IF r.raised THEN r
    ELSE IF ch = "<"
    THEN [r EXCEPT !.f = [r.f EXCEPT !.in_tag = TRUE, !.current_tag = <<"<">>]]
    ELSE IF r.f.in_tag /\ ch = ">"
    THEN CloseTag(r, Append(r.f.current_tag, ch))
    ELSE IF r.f.state \in {"in_thinking", "in_action", "in_final"}
    THEN [r EXCEPT !.f = [r.f EXCEPT !.current_tag =
                              IF r.f.in_tag THEN Append(r.f.current_tag, ch)
                              ELSE r.f.current_tag],
                   !.result = Append(r.result, ch),
                   !.section = IF r.section = "none" THEN SectionOfState(r.f.state)
                               ELSE r.section]
    ELSE IF r.f.in_tag
    THEN [r EXCEPT !.f = [r.f EXCEPT !.current_tag = Append(r.f.current_tag, ch)]]
    ELSE r

\* the body of the for loop of process_chunk for one character
ProcessChar(r, ch) ==
    IF r.raised THEN r
    ELSE IF ch = "<"
    THEN [r EXCEPT !.f = [r.f EXCEPT !.in_tag = TRUE, !.current_tag = <<"<">>]]
    ELSE IF r.f.in_tag
    THEN IF ch = ">"
         THEN CloseTag(r, Append(r.f.current_tag, ch))
         ELSE [r EXCEPT !.f = [r.f EXCEPT !.current_tag = Append(r.f.current_tag, ch)]]
    ELSE IF r.f.state \in {"in_thinking", "in_action", "in_final"}
    THEN [r EXCEPT !.result = Append(r.result, ch),
                   !.section = IF r.section = "none" THEN SectionOfState(r.f.state)
                               ELSE r.section]
    ELSE r

\* the for loop of process_chunk over chunk[lo..hi], character by character
RECURSIVE ProcessRun(_, _, _, _)
ProcessRun(r, chunk, lo, hi) ==
    IF lo > hi THEN r
    ELSE Once({ProcessRun(r2, chunk, lo + 1, hi) : r2 \in {ProcessChar(r, chunk[lo])}})

\* the same loop, a long chunk being processed in two halves one after the
\* other so that the evaluation stays shallow
RECURSIVE ProcessChars(_, _, _, _)
ProcessChars(r, chunk, lo, hi) ==
    IF hi - lo < 16 THEN ProcessRun(r, chunk, lo, hi)
    ELSE Once({ProcessChars(left, chunk, ((lo + hi) \div 2) + 1, hi)
               : left \in {ProcessChars(r, chunk, lo, (lo + hi) \div 2)}})

\* process_chunk: f is the filter before the call; the result carries the
\* filter after it, the filtered text, the section type ("none" for None)
\* and whether the call raised
ProcessChunk(f, chunk) ==
    Once({ProcessChars([f |-> f, result |-> <<>>, section |-> "none", raised |-> FALSE],
                       text, 1, Len(text))
          : text \in {chunk}})

\* ------------------------------------------------------------------------
\* The LLM provider: a deterministic mock that replays a script, one text
\* per turn, the last text again once the script is used up.  How a text is
\* cut into chunks is left open.
\* ------------------------------------------------------------------------
ScriptOf(name) ==
    CASE name = "action_then_answer" -> <<TxtAction, TxtFinal>>
      [] name = "thinking_only" -> <<TxtThinking>>
      [] name = "action_only" -> <<TxtAction>>
      [] name = "bad_json" -> <<TxtBadJson, TxtFinal>>
      [] name = "array" -> <<TxtArray, TxtFinal>>
      [] name = "no_tool" -> <<TxtNoTool, TxtFinal>>
      [] name = "args_num" -> <<TxtArgsNum, TxtFinal>>
      [] name = "action_final" -> <<TxtActionFinal>>
      [] name = "action_comm" -> <<TxtActionComm, TxtFinal>>
      [] name = "comm_only" -> <<TxtComm, TxtFinal>>
      [] name = "action_then_thinking" -> <<TxtAction, TxtThinking>>

ScriptNames ==
    {"action_then_answer", "thinking_only", "action_only", "bad_json", "array",
     "no_tool", "args_num", "action_final", "action_comm", "comm_only"}

\* the text the provider streams in turn k
TurnText(name, k) ==
    LET sc == ScriptOf(name)
    IN  IF k <= Len(sc) THEN sc[k] ELSE sc[Len(sc)]

\* the places where a provider that cuts at marks may end a chunk: after each
\* "<" and each ">", before each "<", one character into the text that
\* follows a tag, and the end of the text
CutMarks(text) ==
    {i \in 1..Len(text) :
        \/ i = Len(text)
        \/ text[i] \in {"<", ">"}
        \/ text[i + 1] = "<"
        \/ i > 1 /\ text[i - 1] = ">" /\ text[i] # "<"}

\* the positions at which the chunk that starts after pos may end
ChunkEnds(policy, text, pos) ==
    IF policy = "any" THEN (pos + 1)..Len(text)
    ELSE {i \in CutMarks(text) : i > pos}

\* ------------------------------------------------------------------------
\* State
\* ------------------------------------------------------------------------
VARIABLES
    pc,                         \* where the run of execute_task stands
    task,                       \* the Task object
    now,                        \* time.time()
    total_start,                \* execute_task: total_start
    total_timeout,              \* execute_task: total_timeout
    script,                     \* the provider's script
    split,                      \* how the provider cuts a text into chunks
    stream,                     \* the locals of _stream_llm_call
    last_action_payload,        \* AgentKernel._last_action_payload
    last_communication_payload, \* AgentKernel._last_communication_payload
    last_final_answer,          \* AgentKernel._last_final_answer
    scratchpad,                 \* AgentKernel.scratchpad
    qa_history,                 \* session.context["qa_history"]
    llm_calls,                  \* calls of llm_provider.generate_stream
    tool_calls,                 \* calls of MCPServerManager.call_tool, in order
    published,                  \* calls of RedisBus.publish_message, in order
    dispatched,                 \* the case taken by each iteration, in order
    emitted                     \* the events the iteration handler has emitted, in order

kernelVars ==
    <<pc, task, now, total_start, total_timeout, script, split, stream, last_action_payload,
      last_communication_payload, last_final_answer, scratchpad, qa_history, llm_calls,
      tool_calls, published, dispatched, emitted>>

\* the return value of line 228
Sentinel == [kind |-> "sentinel", text |-> <<>>]

Answer(text) == [kind |-> "answer", text |-> text]

NoResult == [kind |-> "none", text |-> <<>>]

\* the locals of _stream_llm_call at lines 313-323, and the exception that
\* generate_stream raised into it ("none" while it has raised none)
NewStream ==
    [exc |-> "none",
     xml_filter |-> NewFilter,
     collected |-> <<>>,
     action_buf |-> <<>>,
     communication_buf |-> <<>>,
     final_buf |-> <<>>,
     action_end_detected |-> FALSE,
     communication_end_detected |-> FALSE,
     final_answer_end_detected |-> FALSE,
     chunks_after_end |-> 0]

\* an append_qa that keeps user entries only
AppendQaUserOnly(h, role, kind, text) ==
    IF role = "user" /\ text # <<>>
    THEN Append(h, [role |-> role, kind |-> kind, text |-> text])
    ELSE h

\* Session.append_qa: only user/assistant entries with content are kept
AppendQa(h, role, kind, text) ==
    IF role \in {"user", "assistant"} /\ text # <<>>
    THEN Append(h, [role |-> role, kind |-> kind, text |-> text])
    ELSE h

\* the task description of the modelled run
Description == <<"q">>

\* the kernel before run() is called, for a task with max_iter iterations,
\* a total timeout of timeout, and a provider that plays script sc and cuts
\* its texts as sp says
NewKernel(max_iter, timeout, sc, sp) ==
    /\ pc = "idle"
    /\ task = [status |-> "pending", max_iterations |-> max_iter, current_iteration |-> 0,
               result |-> NoResult, error_message |-> "none"]
    /\ now = 0
    /\ total_start = 0
    /\ total_timeout = timeout
    /\ script = sc
    /\ split = sp
    /\ stream = NewStream
    /\ last_action_payload = <<>>
    /\ last_communication_payload = <<>>
    /\ last_final_answer = <<>>
    /\ scratchpad = <<>>
    /\ qa_history = <<>>
    /\ llm_calls = 0
    /\ tool_calls = <<>>
    /\ published = <<>>
    /\ dispatched = <<>>
    /\ emitted = <<>>

InitKernel ==
    \E max_iter \in 1..MaxIter, timeout \in {1, MaxTime}, sc \in ScriptNames :
        NewKernel(max_iter, timeout, sc, "marks")

\* ------------------------------------------------------------------------
\* AgentKernel: payload parsing
\* ------------------------------------------------------------------------
\* the cleaning both parsers apply before json.loads
Cleaned(raw) ==
    Once({StripFenceClose(opened) : opened \in {StripFenceOpen(Strip(raw))}})

NamePair(name, args) == [kind |-> "pair", name |-> name, args |-> args]

\* _parse_action_json: kind "none" is the None that the function returns
\* when it falls off its end (valid JSON of the wrong shape)
ParseActionJson(raw) ==
    IF raw = <<>> THEN NamePair(<<>>, EmptyMap)
    ELSE Once({ IF ~r.ok THEN NamePair(<<>>, EmptyMap)
                ELSE IF /\ r.val.t = "obj"
                        /\ KeyTool \in DOMAIN r.val.m
                        /\ KeyArguments \in DOMAIN r.val.m
                        /\ r.val.m[KeyArguments].t = "obj"
                     THEN NamePair(Str(r.val.m[KeyTool]), r.val.m[KeyArguments].m)
                     ELSE [kind |-> "none", name |-> <<>>, args |-> EmptyMap]
              : r \in {JsonLoads(Cleaned(raw))}})

\* obj.get(key) or "", then str(...).strip()
GetStr(m, key) ==
    IF key \in DOMAIN m /\ ~Falsy(m[key]) THEN Strip(Str(m[key])) ELSE <<>>

\* _parse_communication_json: always returns a pair
ParseCommunicationJson(raw) ==
    IF raw = <<>> THEN [target |-> <<>>, message |-> <<>>]
    ELSE Once({ IF r.ok /\ r.val.t = "obj"
                   /\ GetStr(r.val.m, KeyTarget) # <<>>
                   /\ GetStr(r.val.m, KeyMessage) # <<>>
                THEN [target |-> GetStr(r.val.m, KeyTarget),
                      message |-> GetStr(r.val.m, KeyMessage)]
                ELSE [target |-> <<>>, message |-> <<>>]
              : r \in {JsonLoads(Cleaned(raw))}})
\* the session lock, the listeners and the runs they start
VARIABLES
    session_lock,   \* _session_locks[SessionId]: the holder, "none" when free
    inbox,          \* per listener, the messages its subscription still holds
    runs,           \* per caller, the run it started and awaits
    inbox_qa,       \* qa_history of the Session object the listeners hold
    handled,        \* what _handle_message did with each message, in order
    msgs_sent,      \* bus messages published so far
    user_runs,      \* questions typed so far
    listener        \* per listener, its task, its subscription and its registry entry

inboxVars == <<session_lock, inbox, runs, inbox_qa, handled, msgs_sent, user_runs, listener>>

\* the tool cache of MCPServerManager and its callers
VARIABLES
    tool_cache,        \* tool name -> server_name of the cached tool
    cache_timestamp,   \* 0 stands for None
    clock,             \* time.time()
    rpcs,              \* per provider, the discovery RPCs it has received
    gw,                \* per client, where its call stands
    calls              \* calls made so far

gatewayVars == <<tool_cache, cache_timestamp, clock, rpcs, gw, calls>>

\* the class attributes of MCPServerManager and the coroutines of one event
\* loop that call get_instance()
VARIABLES
    sg_instance,    \* cls._instance: the number of the instance, 0 for None
    sg_initialized, \* cls._initialized
    sg_lock,        \* cls._lock: its holder, "free" when unlocked
    sg_thread,      \* "loop" while the event loop runs, else the coroutine
                    \* that blocks the thread in _lock.acquire()
    sg_co,          \* each coroutine: where it stands and what it was returned
    sg_inits,       \* the calls of initialize() so far
    sg_pending,     \* the servers whose _initialize_server is still awaited
    sg_sessions,    \* the keys of self.sessions, in the order of insertion
    sg_results,     \* per configured server, its entry in the results of gather
    sg_tool_cache,  \* self._tool_cache: tool name -> server_name
    sg_cache_timestamp \* self._cache_timestamp: "none" for None, else "set"

singletonVars == <<sg_instance, sg_initialized, sg_lock, sg_thread, sg_co, sg_inits,
                   sg_pending, sg_sessions, sg_results,
                   sg_tool_cache, sg_cache_timestamp>>

\* the class RedisBus and one caller of publish_message
VARIABLES
    bus_client,     \* RedisBus._client: the number of the client object, 0 for None
    bus_created,    \* how many Redis(...) objects have been built
    bus_closed,     \* the clients the except block has closed and dropped
    bus_call,       \* the publish_message call in progress
    bus_calls       \* how the finished publish_message calls ended, in order

busVars == <<bus_client, bus_created, bus_closed, bus_call, bus_calls>>

\* the module utils/signals.py, whose handler commands/chat.py installs
VARIABLES
    signals_current_task,        \* signals._current_task: "none" or "run"
    signals_interrupt_requested  \* signals._interrupt_requested

signalVars == <<signals_current_task, signals_interrupt_requested>>

\* one call of Session.build_llm_messages
VARIABLES
    bm_in,          \* the context of the session, the task description and the scratchpad
    bm_out          \* whether the call has returned, and the list it returned

promptVars == <<bm_in, bm_out>>

\* one XMLStreamFilter fed a text chunk by chunk
VARIABLES
    flt_text,       \* the whole text the provider streams
    flt_pos,        \* the number of its characters passed to process_chunk
    flt_f,          \* the filter object
    flt_visible,    \* the filtered texts returned so far, concatenated
    flt_status      \* "feeding", or "raised" once a call has raised

filterVars == <<flt_text, flt_pos, flt_f, flt_visible, flt_status>>

\* one Session object and its file logs/sessions/<session_id>.json
VARIABLES
    sess_qa,        \* self._context["qa_history"]
    sess_file,      \* the content of self._session_file
    sess_log,       \* the messages accepted since the last clear_context
    sess_op         \* the last operation called on the session

sessionVars == <<sess_qa, sess_file, sess_log, sess_op>>

\* the variables of the run of execute_task other than the history
kernelRest ==
    <<pc, task, now, total_start, total_timeout, script, split, stream, last_action_payload,
      last_communication_payload, last_final_answer, scratchpad, llm_calls, tool_calls,
      published, dispatched, emitted>>


\* the Redis set of the online sessions and the kernel session's slot
VARIABLES
    redis_sessions,       \* the members of the set stock_cli:sessions
    redis_up,             \* whether the Redis server answers
    ctx_active_sessions   \* session.context["active_sessions"]

discoveryVars == <<redis_sessions, redis_up, ctx_active_sessions>>

\* the Session objects of one session_id and their file
VARIABLES
    so_qa,      \* per object, its self._context["qa_history"]
    so_file,    \* the content of the session file
    so_count    \* the append_qa calls made so far

sharedVars == <<so_qa, so_file, so_count>>

\* ---------------------------------------------------------------------------
\* Peer discovery: the Redis set of the online sessions (utils/redis_bus.py)
\* and the active_sessions slot the loop writes before it builds the messages
\* of an iteration (agent/kernel.py lines 189-203).  The kernel's session is
\* SessionId.
\* ---------------------------------------------------------------------------

\* the session of the kernel and of its listeners
SessionId == "B"

\* the session ids that register
SessionIds == {"A", "B", "C"}

\* the order of the ids as Python compares strings
SessionRank == [s \in SessionIds |-> IF s = "A" THEN 1 ELSE IF s = "B" THEN 2 ELSE 3]

\* sorted(list(members))
RECURSIVE Sorted(_)
Sorted(members) ==
    IF members = {} THEN <<>>
    ELSE LET first == CHOOSE s \in members : \A t \in members : SessionRank[s] <= SessionRank[t]
         IN  <<first>> \o Sorted(members \ {first})

\* the lines of the content of the slot, each a sequence of strings
LineHeader == <<"[sessions you can talk to]">>
LineNoOthers == <<"no other sessions online">>
LineFooter == <<"prefer this list when talking to other sessions">>
Bullet(sid) == <<"- ", sid>>

\* _default_context: the slot of a new Session
DefaultActiveSessions == [role |-> "system", content |-> <<LineHeader, LineNoOthers>>]

\* a slot that lists every member of the set
ActiveSessionsSlotAll(active_sessions, session_id) ==
    LET bullet == IF active_sessions # <<>>
                  THEN [i \in 1..Len(active_sessions) |-> Bullet(active_sessions[i])]
                  ELSE <<LineNoOthers>>
    IN  [role |-> "system", content |-> <<LineHeader>> \o bullet \o <<LineFooter>>]

\* lines 193-199: the slot for the listing active_sessions in the session
\* session_id
ActiveSessionsSlot(active_sessions, session_id) ==
    LET other_sessions == SelectSeq(active_sessions, LAMBDA sid : sid # session_id)
        bullet == IF other_sessions # <<>>
                  THEN [i \in 1..Len(other_sessions) |-> Bullet(other_sessions[i])]
                  ELSE <<LineNoOthers>>
    IN  [role |-> "system", content |-> <<LineHeader>> \o bullet \o <<LineFooter>>]

InitDiscovery ==
    /\ redis_sessions = {}
    /\ redis_up = TRUE
    /\ ctx_active_sessions = DefaultActiveSessions

\* lines 189-203 in the head of the loop: list_active_sessions raises when
\* Redis does not answer and the slot stays as it is
InjectActiveSessions ==
    /\ ctx_active_sessions' = IF redis_up
                              THEN ActiveSessionsSlot(Sorted(redis_sessions), SessionId)
                              ELSE ctx_active_sessions
    /\ UNCHANGED <<redis_sessions, redis_up>>

\* RedisBus.register_session of a chat or a listener
RegisterSession(sid) ==
    /\ redis_up
    /\ sid \notin redis_sessions
    /\ redis_sessions' = redis_sessions \cup {sid}
    /\ UNCHANGED <<redis_up, ctx_active_sessions>>
    /\ UNCHANGED <<kernelVars, inboxVars, gatewayVars, sessionVars, filterVars, singletonVars, busVars, signalVars, promptVars, sharedVars>>

\* RedisBus.unregister_session
UnregisterSession(sid) ==
    /\ redis_up
    /\ sid \in redis_sessions
    /\ redis_sessions' = redis_sessions \ {sid}
    /\ UNCHANGED <<redis_up, ctx_active_sessions>>
    /\ UNCHANGED <<kernelVars, inboxVars, gatewayVars, sessionVars, filterVars, singletonVars, busVars, signalVars, promptVars, sharedVars>>

\* the Redis server stops or starts answering
RedisFlap ==
    /\ redis_up' = ~redis_up
    /\ UNCHANGED <<redis_sessions, ctx_active_sessions>>
    /\ UNCHANGED <<kernelVars, inboxVars, gatewayVars, sessionVars, filterVars, singletonVars, busVars, signalVars, promptVars, sharedVars>>
\* ------------------------------------------------------------------------
\* AgentKernel: the ReAct loop
\* ------------------------------------------------------------------------
\* a loop condition that admits one iteration too many
LoopGuardOffByOne(iteration, max_iter) == iteration <= max_iter

\* the loop condition at line 178
LoopGuard(iteration, max_iter) == iteration < max_iter

\* a timeout test that fires when the time is just used up
TimedOutEarly(t, start, timeout) == t - start >= timeout

\* the timeout test at line 179
TimedOut(t, start, timeout) == t - start > timeout

\* a dispatch that looks at the action before the final answer
DispatchCaseActionFirst(final_answer, action_name, action_payload, comm_target, comm_payload) ==
    IF action_name # <<>> /\ action_payload # <<>> THEN "action"
    ELSE IF final_answer # <<>> THEN "final_answer"
    ELSE IF comm_target # <<>> /\ comm_payload # <<>> THEN "communication"
    ELSE IF action_name = <<>> /\ comm_target = <<>> THEN "fallback"
    ELSE "none"

\* a dispatch without the corrective fallback
DispatchCaseNoFallback(final_answer, action_name, action_payload, comm_target, comm_payload) ==
    IF final_answer # <<>> THEN "final_answer"
    ELSE IF action_name # <<>> /\ action_payload # <<>> THEN "action"
    ELSE IF comm_target # <<>> /\ comm_payload # <<>> THEN "communication"
    ELSE "none"

\* line 239-242 and the order of the if statements at lines 245-298:
\* the case that _handle_react_iteration_case takes
DispatchCase(final_answer, action_name, action_payload, comm_target, comm_payload) ==
    IF final_answer # <<>> THEN "final_answer"
    ELSE IF action_name # <<>> /\ action_payload # <<>> THEN "action"
    ELSE IF comm_target # <<>> /\ comm_payload # <<>> THEN "communication"
    ELSE IF action_name = <<>> /\ comm_target = <<>> THEN "fallback"
    ELSE "none"

\* lines 387-392: the capture after the stream when no end tag set the marker
CaptureAtEnd(buf, last) == IF buf # <<>> /\ last = <<>> THEN Strip(buf) ELSE last

\* lines 352-369 for one chunk: the buffers and markers after the chunk, from
\* the filtered text and the section type that process_chunk returned
Collect(s, filtered, section, lap, lcp, lfa) ==
    IF section = "action" /\ filtered # <<>>
    THEN [s |-> [s EXCEPT !.action_buf = s.action_buf \o filtered],
          lap |-> lap, lcp |-> lcp, lfa |-> lfa]
    ELSE IF section = "communication" /\ filtered # <<>>
    THEN [s |-> [s EXCEPT !.communication_buf = s.communication_buf \o filtered],
          lap |-> lap, lcp |-> lcp, lfa |-> lfa]
    ELSE IF section = "final_answer" /\ filtered # <<>>
    THEN [s |-> [s EXCEPT !.final_buf = s.final_buf \o filtered],
          lap |-> lap, lcp |-> lcp, lfa |-> lfa]
    ELSE IF section = "action_end"
    THEN [s |-> [s EXCEPT !.action_end_detected = TRUE],
          lap |-> Strip(s.action_buf), lcp |-> lcp, lfa |-> lfa]
    ELSE IF section = "communication_end"
    THEN [s |-> [s EXCEPT !.communication_end_detected = TRUE],
          lap |-> lap, lcp |-> Strip(s.communication_buf), lfa |-> lfa]
    ELSE IF section = "final_answer_end"
    THEN [s |-> [s EXCEPT !.final_answer_end_detected = TRUE],
          lap |-> lap, lcp |-> lcp, lfa |-> Strip(s.final_buf)]
    ELSE [s |-> s, lap |-> lap, lcp |-> lcp, lfa |-> lfa]

\* run() and the part of execute_task before the loop
Run ==
    /\ pc = "idle"
    /\ pc' = "loop"
    /\ qa_history' = AppendQa(qa_history, "user", "text", Description)
    /\ task' = [task EXCEPT !.status = "running"]
    /\ total_start' = now
    /\ scratchpad' = <<>>
    /\ UNCHANGED <<now, total_timeout, script, split, stream, last_action_payload,
                   last_communication_payload, last_final_answer, llm_calls, tool_calls,
                   published, dispatched, emitted>>
    /\ UNCHANGED <<inboxVars, gatewayVars, sessionVars, filterVars, singletonVars, busVars, signalVars, promptVars, discoveryVars, sharedVars>>

\* time passes while the kernel awaits the first chunk of a turn
Tick ==
    /\ pc = "stream"
    /\ stream.collected = <<>>
    /\ now < MaxTime
    /\ now' = now + 1
    /\ UNCHANGED <<pc, task, total_start, total_timeout, script, split, stream,
                   last_action_payload, last_communication_payload, last_final_answer,
                   scratchpad, qa_history, llm_calls, tool_calls, published, dispatched, emitted>>
    /\ UNCHANGED <<inboxVars, gatewayVars, sessionVars, filterVars, singletonVars, busVars, signalVars, promptVars, discoveryVars, sharedVars>>

\* a loop head that does not call _reset_stream_markers
LoopHeadKeep ==
    /\ pc = "loop"
    /\ IF /\ LoopGuard(task.current_iteration, task.max_iterations)
          /\ ~TimedOut(now, total_start, total_timeout)
       THEN /\ task' = [task EXCEPT !.current_iteration = task.current_iteration + 1]
            /\ UNCHANGED <<last_action_payload, last_communication_payload,
                           last_final_answer>>
            /\ stream' = NewStream
            /\ llm_calls' = llm_calls + 1
            /\ pc' = "stream"
            /\ InjectActiveSessions
       ELSE /\ task' = [task EXCEPT !.status = "completed", !.result = Sentinel]
            /\ pc' = "done"
            /\ UNCHANGED <<last_action_payload, last_communication_payload,
                           last_final_answer, stream, llm_calls, discoveryVars>>
    /\ UNCHANGED <<now, total_start, total_timeout, script, split, scratchpad, qa_history,
                   tool_calls, published, dispatched, emitted>>
    /\ UNCHANGED <<inboxVars, gatewayVars, sessionVars, filterVars, singletonVars, busVars, signalVars, promptVars, sharedVars>>

\* lines 178-221: the head of the while loop up to the start of the LLM call,
\* or the exit at lines 227-228 with execute_task's lines 146-148
LoopHead ==
    /\ pc = "loop"
    /\ IF /\ LoopGuard(task.current_iteration, task.max_iterations)
          /\ ~TimedOut(now, total_start, total_timeout)
       THEN /\ task' = [task EXCEPT !.current_iteration = task.current_iteration + 1]
            /\ last_action_payload' = <<>>
            /\ last_communication_payload' = <<>>
            /\ last_final_answer' = <<>>
            /\ stream' = NewStream
            /\ llm_calls' = llm_calls + 1
            /\ pc' = "stream"
            /\ InjectActiveSessions
       ELSE /\ task' = [task EXCEPT !.status = "completed", !.result = Sentinel]
            /\ pc' = "done"
            /\ UNCHANGED <<last_action_payload, last_communication_payload,
                           last_final_answer, stream, llm_calls, discoveryVars>>
    /\ UNCHANGED <<now, total_start, total_timeout, script, split, scratchpad, qa_history,
                   tool_calls, published, dispatched, emitted>>
    /\ UNCHANGED <<inboxVars, gatewayVars, sessionVars, filterVars, singletonVars, busVars, signalVars, promptVars, sharedVars>>

\* lines 332-384: the provider yields the next non-empty chunk
StreamChunk ==
    /\ pc = "stream"
    /\ \E text \in {TurnText(script, task.current_iteration)},
          pos \in {Len(stream.collected)} :
           \E e \in ChunkEnds(split, text, pos) :
           \E r \in {ProcessChunk(stream.xml_filter, SubSeq(text, pos + 1, e))} :
           \E c \in {Collect([stream EXCEPT !.collected = SubSeq(text, 1, e),
                                            !.xml_filter = r.f],
                              r.result, r.section, last_action_payload,
                              last_communication_payload, last_final_answer)} :
             LET ended == \/ c.s.action_end_detected
                          \/ c.s.communication_end_detected
                          \/ c.s.final_answer_end_detected
                 after == IF ended THEN c.s.chunks_after_end + 1 ELSE c.s.chunks_after_end
                 s2 == [c.s EXCEPT !.chunks_after_end = after]
             IN  IF r.raised
                 THEN /\ pc' = "failed"
                      /\ task' = [task EXCEPT !.status = "failed",
                                              !.error_message = "IndexError"]
                      /\ UNCHANGED <<stream, last_action_payload,
                                     last_communication_payload, last_final_answer>>
                 ELSE /\ stream' = s2
                      /\ UNCHANGED task
                      /\ IF ended /\ after >= 3
                         THEN /\ pc' = "handle"
                              /\ last_action_payload' = CaptureAtEnd(s2.action_buf, c.lap)
                              /\ last_communication_payload' =
                                     CaptureAtEnd(s2.communication_buf, c.lcp)
                              /\ last_final_answer' = CaptureAtEnd(s2.final_buf, c.lfa)
                         ELSE /\ pc' = "stream"
                              /\ last_action_payload' = c.lap
                              /\ last_communication_payload' = c.lcp
                              /\ last_final_answer' = c.lfa
    /\ UNCHANGED <<now, total_start, total_timeout, script, split, scratchpad, qa_history,
                   llm_calls, tool_calls, published, dispatched, emitted>>
    /\ UNCHANGED <<inboxVars, gatewayVars, sessionVars, filterVars, singletonVars, busVars, signalVars, promptVars, discoveryVars, sharedVars>>

\* generate_stream raises TimeoutError while the kernel awaits a chunk:
\* _stream_llm_call logs it and raises it again (lines 394-397), nothing in
\* the loop catches it, and execute_task marks the task failed and raises
\* (lines 149-153)
StreamRaise ==
    /\ pc = "stream"
    /\ stream' = [stream EXCEPT !.exc = "TimeoutError"]
    /\ pc' = "failed"
    /\ task' = [task EXCEPT !.status = "failed", !.error_message = "TimeoutError"]
    /\ UNCHANGED <<now, total_start, total_timeout, script, split, last_action_payload,
                   last_communication_payload, last_final_answer, scratchpad, qa_history,
                   llm_calls, tool_calls, published, dispatched, emitted>>
    /\ UNCHANGED <<inboxVars, gatewayVars, sessionVars, filterVars, singletonVars, busVars, signalVars, promptVars, discoveryVars, sharedVars>>

\* lines 386-393: the provider's stream is exhausted
StreamEnd ==
    /\ pc = "stream"
    /\ Len(stream.collected) = Len(TurnText(script, task.current_iteration))
    /\ pc' = "handle"
    /\ last_action_payload' = CaptureAtEnd(stream.action_buf, last_action_payload)
    /\ last_communication_payload' =
           CaptureAtEnd(stream.communication_buf, last_communication_payload)
    /\ last_final_answer' = CaptureAtEnd(stream.final_buf, last_final_answer)
    /\ UNCHANGED <<task, now, total_start, total_timeout, script, split, stream, scratchpad,
                   qa_history, llm_calls, tool_calls, published, dispatched, emitted>>
    /\ UNCHANGED <<inboxVars, gatewayVars, sessionVars, filterVars, singletonVars, busVars, signalVars, promptVars, discoveryVars, sharedVars>>

Pad(role, kind) == [role |-> role, kind |-> kind]

\* a tool failure recorded like a success
ObservationKindSilent(tool_ok) == "Observation"

\* _run_tool_and_record: the user entry appended after the Action entry is
\* "Observation: <result>" (line 422-425) or "Observation: ERROR: <e>"
\* (lines 433, 440-443)
ObservationKind(tool_ok) == IF tool_ok THEN "Observation" ELSE "ObservationError"

\* _handle_react_iteration_case with _run_tool_and_record, and the return
\* to the loop (lines 223-225) or to execute_task (lines 146-153)
HandleIteration ==
    /\ pc = "handle"
    /\ \E tool_ok \in BOOLEAN, publish_ok \in BOOLEAN :
         \E a \in {ParseActionJson(last_action_payload)},
            c \in {ParseCommunicationJson(last_communication_payload)} :
         \E case \in {DispatchCase(last_final_answer, a.name, last_action_payload,
                                   c.target, last_communication_payload)} :
             IF a.kind = "none"
             THEN \* unpacking None at line 236 raises TypeError
                  /\ pc' = "failed"
                  /\ task' = [task EXCEPT !.status = "failed",
                                          !.error_message = "TypeError"]
                  /\ dispatched' = Append(dispatched, "raise")
                  /\ UNCHANGED <<scratchpad, qa_history, tool_calls, published, emitted>>
             ELSE /\ dispatched' = Append(dispatched, case)
                  /\ IF case = "final_answer"
                     THEN /\ qa_history' = AppendQa(qa_history, "assistant", "text",
                                                    Strip(last_final_answer))
                          /\ task' = [task EXCEPT !.status = "completed",
                                                  !.result = Answer(Strip(last_final_answer))]
                          /\ emitted' = Append(emitted, "final_answer_end")
                          /\ pc' = "done"
                          /\ UNCHANGED <<scratchpad, tool_calls, published>>
                     ELSE IF case = "action"
                     THEN /\ tool_calls' = Append(tool_calls, [tool |-> a.name, args |-> a.args,
                                                           raised |-> ~tool_ok])
                          /\ qa_history' =
                                 LET h == AppendQa(qa_history, "assistant", "call_json", a.name)
                                 IN  IF tool_ok THEN h
                                     ELSE AppendQa(h, "assistant", "tool_failed", a.name)
                          /\ scratchpad' = scratchpad \o
                                 <<Pad("assistant", "Action"),
                                   Pad("user", ObservationKind(tool_ok))>>
                          /\ emitted' = Append(emitted, "observation")
                          /\ pc' = "loop"
                          /\ UNCHANGED <<task, published>>
                     ELSE IF case = "communication"
                     THEN /\ published' = Append(published,
                                                 [target |-> c.target, message |-> c.message])
                          /\ qa_history' = AppendQa(qa_history, "assistant", "comm_json",
                                                    c.target)
                          /\ scratchpad' = scratchpad \o
                                 <<Pad("assistant", "Communication"),
                                   Pad("user", IF publish_ok THEN "Observation"
                                               ELSE "ObservationError")>>
                          /\ emitted' = Append(emitted, "observation")
                          /\ pc' = "loop"
                          /\ UNCHANGED <<task, tool_calls>>
                     ELSE IF case = "fallback"
                     THEN /\ scratchpad' = scratchpad \o
                                 <<Pad("assistant", "Fallback"), Pad("user", "Corrective")>>
                          /\ pc' = "loop"
                          /\ UNCHANGED <<task, qa_history, tool_calls, published, emitted>>
                     ELSE /\ pc' = "loop"
                          /\ UNCHANGED <<task, scratchpad, qa_history, tool_calls, published,
                                         emitted>>
    /\ UNCHANGED <<now, total_start, total_timeout, script, split, stream, last_action_payload,
                   last_communication_payload, last_final_answer, llm_calls>>
    /\ UNCHANGED <<inboxVars, gatewayVars, sessionVars, filterVars, singletonVars, busVars, signalVars, promptVars, discoveryVars, sharedVars>>

\* ------------------------------------------------------------------------
\* Session lock, inbox listeners and _run_agent_with_interrupt
\* (core/session_lock.py, monitors/session_inbox.py,
\* triggers/session_inbox.py, core/interaction.py)
\*
\* One session, SessionId, with three callers of _run_agent_with_interrupt:
\* the chat loop ("user") and the two listeners, session_inbox_monitor
\* ("monitor") and session_inbox_trigger ("trigger").  Session ids are one
\* character long so that they can stand in a text.
\* ------------------------------------------------------------------------
\* bus messages published in one behaviour
MaxMsgs == 2
\* questions the user types in one behaviour
MaxUserRuns == 1
\* LLM turns of one run
MaxRunSteps == 1
\* polling errors of one subscription in one behaviour
MaxPollErrors == 1

Listeners == {"monitor", "trigger"}

Callers == {"user"} \cup Listeners

TxtPing == <<"p", "i", "n", "g">>

Msg(from, to, message) == [from |-> from, to |-> to, message |-> message]

\* the payloads that arrive on the channel of SessionId: "from" and "to" may
\* be missing (<<>>), the text may be blank, or empty or missing (<<>>)
BusMessages ==
    {Msg(<<"A">>, <<SessionId>>, TxtPing),
     Msg(<<"A">>, <<>>, TxtPing),
     Msg(<<>>, <<SessionId>>, TxtPing),
     Msg(<<SessionId>>, <<SessionId>>, TxtPing),
     Msg(<<"A">>, <<"C">>, TxtPing),
     Msg(<<"A">>, <<SessionId>>, <<" ">>),
     Msg(<<"A">>, <<SessionId>>, <<>>)}

NoRun == [phase |-> "none", description |-> <<>>, steps |-> 0]

InitInbox ==
    /\ session_lock = "none"
    /\ inbox = [l \in Listeners |-> <<>>]
    /\ runs = [c \in Callers |-> NoRun]
    /\ inbox_qa = <<>>
    /\ handled = <<>>
    /\ msgs_sent = 0
    /\ user_runs = 0
    /\ listener = [l \in Listeners |-> [pc |-> "listening", agen |-> "open",
                                         sub |-> "subscribed", online |-> TRUE,
                                         poll_errors |-> 0]]

\* monitors/session_inbox.py lines 41-66: the message is to be handled
MonitorAccepts(m) ==
    /\ Strip(m.message) # <<>>
    /\ ~(m.to # <<>> /\ m.to # <<SessionId>>)
    /\ ~(m.from # <<>> /\ m.from = <<SessionId>>)

\* triggers/session_inbox.py lines 36-41: the message is to be handled
TriggerAccepts(m) == ~(m.message = <<>> \/ m.from = <<SessionId>>)

\* the text "[来自 <from>] <content>" that both listeners build, without the
\* two Chinese characters; "?" stands for 'unknown'
Incoming(m) ==
    <<"[">> \o (IF m.from # <<>> THEN m.from ELSE <<"?">>) \o <<"]", " ">> \o m.message

\* _run_agent_with_interrupt lines 94-100: the run is created as a task
StartRun(c, question) ==
    [runs EXCEPT ![c] = [phase |-> "created", description |-> question, steps |-> 0]]

\* a publisher sends m on the channel; every subscription receives it
BusDeliver ==
    /\ msgs_sent < MaxMsgs
    /\ \E m \in BusMessages :
         inbox' = [l \in Listeners |-> Append(inbox[l], m)]
    /\ msgs_sent' = msgs_sent + 1
    /\ UNCHANGED <<session_lock, runs, inbox_qa, handled, user_runs, listener, qa_history>>
    /\ UNCHANGED <<kernelRest, gatewayVars, sessionVars, filterVars, singletonVars, busVars, signalVars, promptVars, discoveryVars, sharedVars>>

\* the chat loop, interaction.py lines 364-371: the user asks a question
UserRun ==
    /\ runs["user"].phase = "none"
    /\ user_runs < MaxUserRuns
    /\ user_runs' = user_runs + 1
    /\ runs' = StartRun("user", <<"u">>)
    /\ UNCHANGED <<session_lock, inbox, inbox_qa, handled, msgs_sent, listener, qa_history>>
    /\ UNCHANGED <<kernelRest, gatewayVars, sessionVars, filterVars, singletonVars, busVars, signalVars, promptVars, discoveryVars, sharedVars>>

\* session_inbox_monitor._handle_message when the listener holds the Session
\* object of the kernel: its append_qa reaches the history the run records in
MonitorHandleShared ==
    /\ listener["monitor"].pc = "listening"
    /\ runs["monitor"].phase = "none"
    /\ inbox["monitor"] # <<>>
    /\ LET m == Head(inbox["monitor"])
       IN  /\ inbox' = [inbox EXCEPT !["monitor"] = Tail(inbox["monitor"])]
           /\ IF MonitorAccepts(m)
              THEN /\ session_lock = "none"
                   /\ inbox_qa' = AppendQa(inbox_qa, "user", "text", m.message)
                   /\ qa_history' = AppendQa(qa_history, "user", "text", m.message)
                   /\ runs' = StartRun("monitor", m.message)
                   /\ handled' = Append(handled, [listener |-> "monitor", msg |-> m,
                                                  ran |-> TRUE, description |-> m.message,
                                                  qa_same |-> inbox_qa' = inbox_qa])
              ELSE /\ handled' = Append(handled, [listener |-> "monitor", msg |-> m,
                                                  ran |-> FALSE, description |-> <<>>,
                                                  qa_same |-> TRUE])
                   /\ UNCHANGED <<inbox_qa, runs, qa_history>>
    /\ UNCHANGED <<session_lock, msgs_sent, user_runs, listener>>
    /\ UNCHANGED <<kernelRest, gatewayVars, sessionVars, filterVars, singletonVars, busVars, signalVars, promptVars, discoveryVars, sharedVars>>

\* session_inbox_monitor._handle_message for the next message; the wait at
\* lines 75-79 takes the lock only when it is free and gives it back at once
MonitorHandle ==
    /\ listener["monitor"].pc = "listening"
    /\ runs["monitor"].phase = "none"
    /\ inbox["monitor"] # <<>>
    /\ LET m == Head(inbox["monitor"])
       IN  /\ inbox' = [inbox EXCEPT !["monitor"] = Tail(inbox["monitor"])]
           /\ IF MonitorAccepts(m)
              THEN /\ session_lock = "none"
                   /\ inbox_qa' = AppendQa(inbox_qa, "user", "text", m.message)
                   /\ runs' = StartRun("monitor", m.message)
                   /\ handled' = Append(handled, [listener |-> "monitor", msg |-> m,
                                                  ran |-> TRUE, description |-> m.message,
                                                  qa_same |-> inbox_qa' = inbox_qa])
              ELSE /\ handled' = Append(handled, [listener |-> "monitor", msg |-> m,
                                                  ran |-> FALSE, description |-> <<>>,
                                                  qa_same |-> TRUE])
                   /\ UNCHANGED <<inbox_qa, runs>>
    /\ UNCHANGED <<session_lock, msgs_sent, user_runs, listener, qa_history>>
    /\ UNCHANGED <<kernelRest, gatewayVars, sessionVars, filterVars, singletonVars, busVars, signalVars, promptVars, discoveryVars, sharedVars>>

\* session_inbox_trigger._handle_message for the next message
TriggerHandle ==
    /\ listener["trigger"].pc = "listening"
    /\ runs["trigger"].phase = "none"
    /\ inbox["trigger"] # <<>>
    /\ LET m == Head(inbox["trigger"])
       IN  /\ inbox' = [inbox EXCEPT !["trigger"] = Tail(inbox["trigger"])]
           /\ IF TriggerAccepts(m)
              THEN /\ inbox_qa' = AppendQa(inbox_qa, "user", "text", Incoming(m))
                   /\ runs' = StartRun("trigger", Incoming(m))
                   /\ handled' = Append(handled, [listener |-> "trigger", msg |-> m,
                                                  ran |-> TRUE, description |-> Incoming(m),
                                                  qa_same |-> inbox_qa' = inbox_qa])
              ELSE /\ handled' = Append(handled, [listener |-> "trigger", msg |-> m,
                                                  ran |-> FALSE, description |-> <<>>,
                                                  qa_same |-> TRUE])
                   /\ UNCHANGED <<inbox_qa, runs>>
    /\ UNCHANGED <<session_lock, msgs_sent, user_runs, listener, qa_history>>
    /\ UNCHANGED <<kernelRest, gatewayVars, sessionVars, filterVars, singletonVars, busVars, signalVars, promptVars, discoveryVars, sharedVars>>

\* kernel.run lines 54-67 once the task created for caller c is scheduled:
\* the question is recorded and execute_task starts
RunBegin(c) ==
    /\ runs[c].phase = "created"
    /\ runs' = [runs EXCEPT ![c].phase = "running"]
    /\ qa_history' = AppendQa(qa_history, "user", "text", runs[c].description)
    /\ UNCHANGED <<session_lock, inbox, inbox_qa, handled, msgs_sent, user_runs, listener>>
    /\ UNCHANGED <<kernelRest, gatewayVars, sessionVars, filterVars, singletonVars, busVars, signalVars, promptVars, discoveryVars, sharedVars>>

\* one iteration of the loop of the run of caller c that does not end it
RunIterate(c) ==
    /\ runs[c].phase = "running"
    /\ runs[c].steps < MaxRunSteps
    /\ runs' = [runs EXCEPT ![c].steps = runs[c].steps + 1]
    /\ UNCHANGED <<session_lock, inbox, inbox_qa, handled, msgs_sent, user_runs, listener, qa_history>>
    /\ UNCHANGED <<kernelRest, gatewayVars, sessionVars, filterVars, singletonVars, busVars, signalVars, promptVars, discoveryVars, sharedVars>>

\* the run of caller c returns and _run_agent_with_interrupt with it
RunEnd(c) ==
    /\ runs[c].phase = "running"
    /\ runs' = [runs EXCEPT ![c] = NoRun]
    /\ qa_history' = AppendQa(qa_history, "assistant", "text", <<"a">>)
    /\ UNCHANGED <<session_lock, inbox, inbox_qa, handled, msgs_sent, user_runs, listener>>
    /\ UNCHANGED <<kernelRest, gatewayVars, sessionVars, filterVars, singletonVars, busVars, signalVars, promptVars, discoveryVars, sharedVars>>

NextInbox ==
    \/ BusDeliver
    \/ UserRun
    \/ MonitorHandle
    \/ TriggerHandle
    \/ \E c \in Callers : RunBegin(c)
    \/ \E c \in Callers : RunIterate(c)
    \/ \E c \in Callers : RunEnd(c)


\* task.cancel() on the task of listener l (monitor_manager.py line 108,
\* interaction.py lines 200 and 209).  Waiting for a bus message, the task is
\* inside subscribe_messages and the CancelledError is raised there (redis_bus.py
\* lines 262-263).  Awaiting a run it dispatched (session_inbox.py lines 98-103),
\* the cancellation is passed on to the awaited task (interaction.py lines
\* 103 and 115-119), the CancelledError leaves the async for (lines 116-118
\* and 123) with the generator suspended at its yield, and the event loop
\* schedules the generator's aclose() as a task of its own.
CancelListener(l) ==
    /\ listener[l].pc \in {"listening", "poll_sleep"}
    /\ IF runs[l].phase = "none"
       THEN /\ listener' = [listener EXCEPT ![l].pc = "generator_finally"]
            /\ UNCHANGED runs
       ELSE /\ listener' = [listener EXCEPT ![l].pc = "finally", ![l].agen = "finalizing"]
            /\ runs' = [runs EXCEPT ![l].phase = "cancelled"]
    /\ UNCHANGED <<session_lock, inbox, inbox_qa, handled, msgs_sent, user_runs, qa_history>>
    /\ UNCHANGED <<kernelRest, gatewayVars, sessionVars, filterVars, singletonVars, busVars, signalVars, promptVars, discoveryVars, sharedVars>>

\* the finally of subscribe_messages, redis_bus.py lines 270-276: unsubscribe
\* and close, run by the listener task when the CancelledError was raised in
\* the generator and by the aclose() task otherwise
GeneratorFinally(l) ==
    /\ listener[l].pc = "generator_finally" \/ listener[l].agen = "finalizing"
    /\ listener' = [listener EXCEPT
                        ![l].sub = "closed",
                        ![l].agen = "closed",
                        ![l].pc = IF @ = "generator_finally" THEN "finally" ELSE @]
    /\ UNCHANGED <<session_lock, inbox, runs, inbox_qa, handled, msgs_sent, user_runs, qa_history>>
    /\ UNCHANGED <<kernelRest, gatewayVars, sessionVars, filterVars, singletonVars, busVars, signalVars, promptVars, discoveryVars, sharedVars>>

\* the finally of the listener, monitors/session_inbox.py lines 128-133 and
\* triggers/session_inbox.py lines 67-72: unregister_session, then the task ends
ListenerFinally(l) ==
    /\ listener[l].pc = "finally"
    /\ listener' = [listener EXCEPT ![l].online = FALSE, ![l].pc = "finished"]
    /\ UNCHANGED <<session_lock, inbox, runs, inbox_qa, handled, msgs_sent, user_runs, qa_history>>
    /\ UNCHANGED <<kernelRest, gatewayVars, sessionVars, filterVars, singletonVars, busVars, signalVars, promptVars, discoveryVars, sharedVars>>

\* the run of listener l raises an Exception: execute_task re-raises it
\* (kernel.py lines 149-153), _run_agent_with_interrupt passes it on
\* (interaction.py lines 120-122), and the listener takes it for an outcome of
\* this message (monitors/session_inbox.py lines 105-107 and 119-122,
\* triggers/session_inbox.py lines 61-63) when it reaches the listener alive
RunFailFatal(l) ==
    /\ listener[l].pc = "listening"
    /\ runs[l].phase = "running"
    /\ runs' = [runs EXCEPT ![l] = NoRun]
    /\ listener' = [listener EXCEPT ![l].pc = "finally", ![l].agen = "finalizing"]
    /\ UNCHANGED <<session_lock, inbox, inbox_qa, handled, msgs_sent, user_runs, qa_history>>
    /\ UNCHANGED <<kernelRest, gatewayVars, sessionVars, filterVars, singletonVars, busVars, signalVars, promptVars, discoveryVars, sharedVars>>

\* the run of listener l raises an Exception: execute_task re-raises it
\* (kernel.py lines 149-153), _run_agent_with_interrupt passes it on
\* (interaction.py lines 120-122), and the listener logs it and goes on with
\* its async for (monitors/session_inbox.py lines 105-107 and 119-122,
\* triggers/session_inbox.py lines 61-63)
RunFail(l) ==
    /\ listener[l].pc = "listening"
    /\ runs[l].phase = "running"
    /\ runs' = [runs EXCEPT ![l] = NoRun]
    /\ UNCHANGED <<session_lock, inbox, inbox_qa, handled, msgs_sent, user_runs, listener, qa_history>>
    /\ UNCHANGED <<kernelRest, gatewayVars, sessionVars, filterVars, singletonVars, busVars, signalVars, promptVars, discoveryVars, sharedVars>>

\* pubsub.get_message raises an Exception while listener l waits for a
\* message: subscribe_messages logs it and sleeps (redis_bus.py lines 265-268)
PollError(l) ==
    /\ listener[l].pc = "listening"
    /\ runs[l].phase = "none"
    /\ listener[l].poll_errors < MaxPollErrors
    /\ listener' = [listener EXCEPT ![l].pc = "poll_sleep",
                                    ![l].poll_errors = @ + 1]
    /\ UNCHANGED <<session_lock, inbox, runs, inbox_qa, handled, msgs_sent, user_runs, qa_history>>
    /\ UNCHANGED <<kernelRest, gatewayVars, sessionVars, filterVars, singletonVars, busVars, signalVars, promptVars, discoveryVars, sharedVars>>

\* the sleep is over and the while True of subscribe_messages polls again
\* (redis_bus.py lines 244-246)
PollResume(l) ==
    /\ listener[l].pc = "poll_sleep"
    /\ listener' = [listener EXCEPT ![l].pc = "listening"]
    /\ UNCHANGED <<session_lock, inbox, runs, inbox_qa, handled, msgs_sent, user_runs, qa_history>>
    /\ UNCHANGED <<kernelRest, gatewayVars, sessionVars, filterVars, singletonVars, busVars, signalVars, promptVars, discoveryVars, sharedVars>>

\* ------------------------------------------------------------------------
\* MCPServerManager: the tool cache (tools/mcp_server_manager.py)
\*
\* The manager is connected to the providers of Servers, in the order of
\* self.sessions.  Coroutines of Clients call list_tools and call_tool; a
\* coroutine gives way to the others only at an await, that is while a
\* discovery RPC of its refresh is in flight.
\* ------------------------------------------------------------------------
\* calls of list_tools and call_tool made in one behaviour
MaxCalls == 3
\* times the clock advances in one behaviour
MaxTicks == 4
\* seconds the clock advances at a time
ClockStep == 100

cache_ttl == 300

\* the default of call_tool's parameter retries; every caller leaves it alone
retries == 2

\* the default of call_tool's parameter delay, in seconds
delay == 1

Servers == <<"p1", "p2">>

Clients == {"c1", "c2"}

\* the tools each provider reports; "t" is reported by both
ServerTools(p) == IF p = "p1" THEN {"t", "a"} ELSE {"t", "b"}

EmptyCache == [n \in {} |-> "none"]

\* a caller: server is the argument server_name ("none" for None), target
\* the server the tool call is sent to, attempts
\* counts the call_tool RPCs the call has sent, slept the seconds it has
\* slept between them, last_error is the attempt whose exception
\* _execute_tool_with_retry holds (0 for None)
Idle == [pc |-> "idle", op |-> "none", name |-> "none", idx |-> 0, got |-> {},
         refreshed |-> FALSE, result |-> EmptyCache, error |-> "none",
         server |-> "none", target |-> "none",
         attempts |-> 0, slept |-> 0, last_error |-> 0]

InitGateway ==
    /\ tool_cache = EmptyCache
    /\ cache_timestamp = 0
    /\ clock = 1
    /\ rpcs = [i \in 1..Len(Servers) |-> 0]
    /\ gw = [c \in Clients |-> Idle]
    /\ calls = 0

\* a validity test that still holds when the age equals the TTL
IsCacheValidInclusive(ts, t) ==
    IF ts = 0 THEN FALSE ELSE (t - ts) <= cache_ttl

\* _is_cache_valid at time t with timestamp ts
IsCacheValid(ts, t) ==
    IF ts = 0 THEN FALSE ELSE (t - ts) < cache_ttl

\* _parse_tools_response: the tools of provider p are written into the cache
ParseToolsResponse(cache, p) ==
    [n \in DOMAIN cache \cup ServerTools(p) |-> IF n \in ServerTools(p) THEN p ELSE cache[n]]

\* a lookup in which an unknown tool is sent to the first provider
CallAnswerNoLookup(g, cache) ==
    IF g.op = "list_tools" THEN [g EXCEPT !.pc = "done", !.result = cache]
    ELSE [g EXCEPT !.pc = "exec", !.target = Servers[1]]

\* how the call goes on once the cache is valid or refreshed: list_tools
\* returns the cached tools; call_tool (lines 343-354) raises for a tool that
\* is not cached and for a target server without a session, and otherwise
\* enters _execute_tool_with_retry with the target server
CallAnswer(g, cache) ==
    IF g.op = "list_tools" THEN [g EXCEPT !.pc = "done", !.result = cache]
    ELSE IF g.name \notin DOMAIN cache
         THEN [g EXCEPT !.pc = "done", !.error = "ToolNotFound"]
         ELSE IF (IF g.server # "none" THEN g.server ELSE cache[g.name])
                    \notin {Servers[i] : i \in 1..Len(Servers)}
         THEN [g EXCEPT !.pc = "done", !.error = "ServerUnavailable"]
         ELSE [g EXCEPT !.pc = "exec",
                        !.target = IF g.server # "none" THEN g.server ELSE cache[g.name]]

GTick ==
    /\ clock < 1 + MaxTicks * ClockStep
    /\ clock' = clock + ClockStep
    /\ UNCHANGED <<tool_cache, cache_timestamp, rpcs, gw, calls>>
    /\ UNCHANGED <<kernelVars, inboxVars, sessionVars, filterVars, singletonVars, busVars, signalVars, promptVars, discoveryVars, sharedVars>>

\* client c calls list_tools() or call_tool(name, ...): with a valid cache
\* the call is answered at once, otherwise _refresh_tool_cache clears the
\* cache and awaits list_tools() of the first provider
CallStart(c) ==
    /\ gw[c].pc = "idle"
    /\ calls < MaxCalls
    /\ calls' = calls + 1
    /\ \E op \in {"list_tools", "call_tool"}, name \in {"t", "zz"}, server \in {"none", "p3"} :
         /\ (op = "list_tools" => name = "t" /\ server = "none")
         /\ LET g == [Idle EXCEPT !.op = op, !.name = name, !.server = server]
            IN  IF IsCacheValid(cache_timestamp, clock)
                THEN /\ gw' = [gw EXCEPT ![c] = CallAnswer(g, tool_cache)]
                     /\ UNCHANGED <<tool_cache, rpcs>>
                ELSE /\ tool_cache' = EmptyCache
                     /\ rpcs' = [rpcs EXCEPT ![1] = rpcs[1] + 1]
                     /\ gw' = [gw EXCEPT ![c] = [g EXCEPT !.pc = "refresh", !.idx = 1,
                                                          !.refreshed = TRUE]]
    /\ UNCHANGED <<cache_timestamp, clock>>
    /\ UNCHANGED <<kernelVars, inboxVars, sessionVars, filterVars, singletonVars, busVars, signalVars, promptVars, discoveryVars, sharedVars>>

\* the provider that client c awaits answers (ok), or the RPC raises: the
\* loop of _refresh_tool_cache goes on with the next provider, and after
\* the last one sets the timestamp and the call is answered
RefreshAnswer(c, ok) ==
    /\ gw[c].pc = "refresh"
    /\ LET i == gw[c].idx
           cache == IF ok THEN ParseToolsResponse(tool_cache, Servers[i]) ELSE tool_cache
           g == IF ok THEN [gw[c] EXCEPT !.got = gw[c].got \cup {Servers[i]}] ELSE gw[c]
       IN  /\ tool_cache' = cache
           /\ IF i < Len(Servers)
              THEN /\ rpcs' = [rpcs EXCEPT ![i + 1] = rpcs[i + 1] + 1]
                   /\ gw' = [gw EXCEPT ![c] = [g EXCEPT !.idx = i + 1]]
                   /\ UNCHANGED cache_timestamp
              ELSE /\ cache_timestamp' = clock
                   /\ gw' = [gw EXCEPT ![c] = CallAnswer(g, cache)]
                   /\ UNCHANGED rpcs
    /\ UNCHANGED <<clock, calls>>
    /\ UNCHANGED <<kernelVars, inboxVars, sessionVars, filterVars, singletonVars, busVars, signalVars, promptVars, discoveryVars, sharedVars>>

\* the discovery RPC that client c awaits ends, one way or the other
RefreshStep(c) == \E ok \in BOOLEAN : RefreshAnswer(c, ok)

\* one attempt of _execute_tool_with_retry: the call_tool RPC to the target
\* server returns (ok) and the result is returned, or it raises; after a
\* failed attempt that is not the last the coroutine sleeps, after the last
\* one last_error is raised
ExecAttempt(c) ==
    /\ gw[c].pc = "exec"
    /\ \E ok \in BOOLEAN :
         LET attempt == gw[c].attempts
             g == [gw[c] EXCEPT !.attempts = attempt + 1]
         IN  gw' = [gw EXCEPT ![c] =
                      IF ok
                      THEN [g EXCEPT !.pc = "done",
                                     !.result = [n \in {g.name} |-> g.target]]
                      ELSE IF attempt < retries - 1
                      THEN [g EXCEPT !.pc = "sleep", !.last_error = attempt + 1]
                      ELSE [g EXCEPT !.pc = "done", !.last_error = attempt + 1,
                                     !.error = "ToolExecutionError"]]
    /\ UNCHANGED <<tool_cache, cache_timestamp, clock, rpcs, calls>>
    /\ UNCHANGED <<kernelVars, inboxVars, sessionVars, filterVars, singletonVars, busVars, signalVars, promptVars, discoveryVars, sharedVars>>

\* await asyncio.sleep(delay) is over: the for loop goes on
ExecSleep(c) ==
    /\ gw[c].pc = "sleep"
    /\ gw' = [gw EXCEPT ![c] = [gw[c] EXCEPT !.pc = "exec", !.slept = gw[c].slept + delay]]
    /\ UNCHANGED <<tool_cache, cache_timestamp, clock, rpcs, calls>>
    /\ UNCHANGED <<kernelVars, inboxVars, sessionVars, filterVars, singletonVars, busVars, signalVars, promptVars, discoveryVars, sharedVars>>

\* the caller takes the answer
CallReturn(c) ==
    /\ gw[c].pc = "done"
    /\ gw' = [gw EXCEPT ![c] = Idle]
    /\ UNCHANGED <<tool_cache, cache_timestamp, clock, rpcs, calls>>
    /\ UNCHANGED <<kernelVars, inboxVars, sessionVars, filterVars, singletonVars, busVars, signalVars, promptVars, discoveryVars, sharedVars>>

NextGateway ==
    \/ GTick
    \/ \E c \in Clients : CallStart(c)
    \/ \E c \in Clients : RefreshStep(c)
    \/ \E c \in Clients : ExecAttempt(c)
    \/ \E c \in Clients : ExecSleep(c)
    \/ \E c \in Clients : CallReturn(c)

\* ------------------------------------------------------------------------
\* Session: qa_history and its persistence (core/session.py)
\*
\* One Session object and its session file.  Of the context only
\* qa_history is modelled; a message is a record of its role ("none" when
\* the key is missing) and its content (<<>> when missing or empty).  The
\* file is modelled by its JSON document: the strings in it are the escaped
\* forms that json.dumps writes and json.load reads back.
\* ------------------------------------------------------------------------
\* longest qa_history explored
MaxHist == 2

\* a lone UTF-16 surrogate (half of an emoji), which a str can hold and
\* UTF-8 cannot encode; written "SUR" because a string of the module cannot
\* hold it
Surrogate == "SUR"

\* a quote, a backslash, the letter n and a newline
TxtEscapes == <<"\"", "\\", "n", "\n">>

\* the dicts passed to append_qa
MessagePool ==
    {[role |-> r, content |-> c] :
        r \in {"user", "assistant", "system", "none"},
        c \in {<<>>, TxtEscapes, <<Surrogate>>}}

\* an item of a qa_history list that is not a dict
NotADict == [role |-> "notadict", content |-> <<>>]

\* the qa_history of a context passed to set_context: missing, not a list,
\* or a list of items
CtxPool ==
    {[kind |-> "missing", items |-> <<>>], [kind |-> "notlist", items |-> <<>>]}
    \cup {[kind |-> "list", items |-> <<a, b>>] :
            a \in {[role |-> "user", content |-> TxtEscapes], [role |-> "system", content |-> TxtEscapes], NotADict},
            b \in {[role |-> "assistant", content |-> TxtEscapes], [role |-> "user", content |-> <<>>]}}

\* json.dumps(..., ensure_ascii=False) of a string, without the quotes
RECURSIVE JsonEscape(_)
JsonEscape(s) ==
    IF s = <<>> THEN <<>>
    ELSE (IF Head(s) = "\"" THEN <<"\\", "\"">>
          ELSE IF Head(s) = "\\" THEN <<"\\", "\\">>
          ELSE IF Head(s) = "\n" THEN <<"\\", "n">>
          ELSE <<Head(s)>>) \o JsonEscape(Tail(s))

\* json.load of the inside of a string literal
RECURSIVE JsonUnescape(_)
JsonUnescape(t) ==
    IF t = <<>> THEN <<>>
    ELSE IF Head(t) = "\\" /\ Len(t) >= 2
         THEN <<IF t[2] = "n" THEN "\n" ELSE t[2]>> \o JsonUnescape(SubSeq(t, 3, Len(t)))
         ELSE <<Head(t)>> \o JsonUnescape(Tail(t))

\* f.write on a file opened with encoding="utf-8" can encode the text
Utf8Encodable(s) == \A i \in 1..Len(s) : s[i] # Surrogate

\* The session file is a record: kind "absent" while it does not exist,
\* "empty" after open(..., "w") and no write, and "json" with the document.
\* the document written for the context whose qa_history is qa
Document(qa) ==
    [kind |-> "json",
     qa_history |-> [i \in 1..Len(qa) |->
                        [role |-> qa[i].role, content |-> JsonEscape(qa[i].content)]]]

\* _save_context_to_disk: the file afterwards.  The file is opened, and so
\* truncated, before the text is written; an exception of the write is
\* logged and swallowed
SaveContextToDisk(qa) ==
    IF \A i \in 1..Len(qa) : Utf8Encodable(qa[i].content)
    THEN Document(qa)
    ELSE [kind |-> "empty", qa_history |-> <<>>]

\* the condition of append_qa, line 199
AcceptsQa(m) == m.role \in {"user", "assistant"} /\ m.content # <<>>

\* the filter of set_context, line 90
KeepsQa(m) == m # NotADict /\ m.role \in {"user", "assistant"} /\ m.content # <<>>

\* set_context: the qa_history of the new context
SetContextQa(ctx) ==
    IF ctx.kind = "list" THEN SelectSeq(ctx.items, KeepsQa) ELSE <<>>

\* _load_context_from_disk in __init__: the qa_history of the new Session
LoadContextFromDisk(file) ==
    IF file.kind = "json"
    THEN SetContextQa([kind |-> "list",
                       items |-> [i \in 1..Len(file.qa_history) |->
                                     [role |-> file.qa_history[i].role, content |-> JsonUnescape(file.qa_history[i].content)]]])
    ELSE <<>>

\* Session(session_id) on a machine without a session file
InitSessionFile ==
    /\ sess_qa = <<>>
    /\ sess_file = [kind |-> "absent", qa_history |-> <<>>]
    /\ sess_log = [clean |-> FALSE, msgs |-> <<>>]
    /\ sess_op = [op |-> "init", msg |-> [role |-> "none", content |-> <<>>]]

\* append_qa(m)
SessAppendQa ==
    \E m \in MessagePool :
        /\ Len(sess_qa) < MaxHist
        /\ Len(sess_log.msgs) < MaxHist
        /\ sess_op' = [op |-> "append_qa", msg |-> m]
        /\ IF AcceptsQa(m)
           THEN /\ sess_qa' = Append(sess_qa, m)
                /\ sess_file' = SaveContextToDisk(sess_qa')
                /\ sess_log' = IF sess_log.clean
                               THEN [sess_log EXCEPT !.msgs = Append(sess_log.msgs, m)]
                               ELSE sess_log
           ELSE UNCHANGED <<sess_qa, sess_file, sess_log>>
        /\ UNCHANGED <<kernelVars, inboxVars, gatewayVars, filterVars, singletonVars, busVars, signalVars, promptVars, discoveryVars, sharedVars>>

\* append_event(role, content)
SessAppendEvent ==
    \E role \in {"user", "system_scheduler"}, content \in {<<>>, TxtEscapes} :
        /\ Len(sess_qa) < MaxHist
        /\ sess_op' = [op |-> "append_event", msg |-> [role |-> role, content |-> content]]
        /\ IF content = <<>>
           THEN UNCHANGED <<sess_qa, sess_file, sess_log>>
           ELSE /\ sess_qa' = Append(sess_qa, [role |-> role, content |-> content])
                /\ sess_file' = SaveContextToDisk(sess_qa')
                /\ sess_log' = [clean |-> FALSE, msgs |-> <<>>]
        /\ UNCHANGED <<kernelVars, inboxVars, gatewayVars, filterVars, singletonVars, busVars, signalVars, promptVars, discoveryVars, sharedVars>>

\* set_context(ctx); the context is not saved
SessSetContext ==
    \E ctx \in CtxPool :
        /\ sess_op' = [op |-> "set_context", msg |-> [role |-> "none", content |-> <<>>]]
        /\ sess_qa' = SetContextQa(ctx)
        /\ sess_log' = [clean |-> FALSE, msgs |-> <<>>]
        /\ UNCHANGED sess_file
        /\ UNCHANGED <<kernelVars, inboxVars, gatewayVars, filterVars, singletonVars, busVars, signalVars, promptVars, discoveryVars, sharedVars>>

\* clear_context()
SessClearContext ==
    /\ sess_op' = [op |-> "clear_context", msg |-> [role |-> "none", content |-> <<>>]]
    /\ sess_qa' = <<>>
    /\ sess_file' = SaveContextToDisk(<<>>)
    /\ sess_log' = [clean |-> TRUE, msgs |-> <<>>]
    /\ UNCHANGED <<kernelVars, inboxVars, gatewayVars, filterVars, singletonVars, busVars, signalVars, promptVars, discoveryVars, sharedVars>>

\* a new Session with the same session_id replaces the object
SessReload ==
    /\ sess_op' = [op |-> "load", msg |-> [role |-> "none", content |-> <<>>]]
    /\ sess_qa' = LoadContextFromDisk(sess_file)
    /\ UNCHANGED <<sess_file, sess_log>>
    /\ UNCHANGED <<kernelVars, inboxVars, gatewayVars, filterVars, singletonVars, busVars, signalVars, promptVars, discoveryVars, sharedVars>>

NextSession ==
    \/ SessAppendQa
    \/ SessAppendEvent
    \/ SessSetContext
    \/ SessClearContext
    \/ SessReload


\* ---------------------------------------------------------------------------
\* Two Session objects of one session_id: the one the inbox listener gets from
\* its own SessionManager() (monitors/session_inbox.py line 35) and the one
\* the kernel holds.  Each keeps its own context and writes the whole of it
\* to the one session file after every append (core/session.py).
\* ---------------------------------------------------------------------------
\* append_qa calls made in one behaviour
MaxAppends == 4

SessionObjects == {"listener", "kernel"}

\* the content of the n-th message appended
EntryText(n) == <<<<"1", "2", "3", "4", "5", "6">>[n]>>

\* both objects are built while there is no session file
InitShared ==
    /\ so_qa = [o \in SessionObjects |-> <<>>]
    /\ so_file = [kind |-> "absent", qa_history |-> <<>>]
    /\ so_count = 0

\* object o appends the next message, as a question or as an answer
\* (append_qa, lines 197-202): its own qa_history grows and is written to the
\* file whole
SharedAppendQa(o) ==
    /\ so_count < MaxAppends
    /\ so_count' = so_count + 1
    /\ \E role \in {"user", "assistant"} :
         /\ so_qa' = [so_qa EXCEPT ![o] = Append(so_qa[o],
                                              [role |-> role, content |-> EntryText(so_count')])]
         /\ so_file' = SaveContextToDisk(so_qa'[o])
    /\ UNCHANGED <<kernelVars, inboxVars, gatewayVars, sessionVars, filterVars, singletonVars, busVars, signalVars, promptVars, discoveryVars>>

\* the listener is started again: SessionManager().get_session builds a new
\* Session, which loads the file (line 37)
SharedNewSession ==
    /\ so_qa["listener"] # LoadContextFromDisk(so_file)
    /\ so_qa' = [so_qa EXCEPT !["listener"] = LoadContextFromDisk(so_file)]
    /\ UNCHANGED <<so_file, so_count>>
    /\ UNCHANGED <<kernelVars, inboxVars, gatewayVars, sessionVars, filterVars, singletonVars, busVars, signalVars, promptVars, discoveryVars>>
\* ------------------------------------------------------------------------
\* XMLStreamFilter.process_chunk called chunk by chunk on one text
\* ------------------------------------------------------------------------
\* <thinking>A<b>B</action>C</thinking>D<action>E<x<y>F>G</action>
\* an unrecognised tag, a closing tag that does not match the open section,
\* text outside every section, a "<" inside a tag and a lone ">"
TxtMixedTags ==
    <<"<", "t", "h", "i", "n", "k", "i", "n", "g", ">", "A", "<", "b", ">", "B", "<",
    "/", "a", "c", "t", "i", "o", "n", ">", "C", "<", "/", "t", "h", "i", "n", "k",
    "i", "n", "g", ">", "D", "<", "a", "c", "t", "i", "o", "n", ">", "E", "<", "x",
    "<", "y", ">", "F", ">", "G", "<", "/", "a", "c", "t", "i", "o", "n", ">">>

\* J<THINKING >K</ thinking>L<final_answer>M</final>N</FINAL_ANSWER>P
\* tag names in capitals and with blanks, a closing tag of an unknown name
TxtLooseTags ==
    <<"J", "<", "T", "H", "I", "N", "K", "I", "N", "G", " ", ">", "K", "<", "/", " ",
    "t", "h", "i", "n", "k", "i", "n", "g", ">", "L", "<", "f", "i", "n", "a", "l",
    "_", "a", "n", "s", "w", "e", "r", ">", "M", "<", "/", "f", "i", "n", "a", "l",
    ">", "N", "<", "/", "F", "I", "N", "A", "L", "_", "A", "N", "S", "W", "E", "R",
    ">", "P">>

\* <final_answer>Q< >R</final_answer>
\* a tag without a name, on which _extract_tag_name raises IndexError
TxtEmptyTag ==
    <<"<", "f", "i", "n", "a", "l", "_", "a", "n", "s", "w", "e", "r", ">", "Q", "<",
    " ", ">", "R", "<", "/", "f", "i", "n", "a", "l", "_", "a", "n", "s", "w", "e",
    "r", ">">>

\* the filter of a run that has not started
InitFilter ==
    /\ flt_text = <<>>
    /\ flt_pos = 0
    /\ flt_f = NewFilter
    /\ flt_visible = <<>>
    /\ flt_status = "feeding"

\* one call process_chunk(chunk) on the next k characters of the text
FeedChunk ==
    /\ flt_status = "feeding"
    /\ flt_pos < Len(flt_text)
    /\ \E k \in 1..(Len(flt_text) - flt_pos) :
         \E r \in {ProcessChunk(flt_f, SubSeq(flt_text, flt_pos + 1, flt_pos + k))} :
            /\ flt_pos' = flt_pos + k
            /\ flt_f' = r.f
            /\ flt_visible' = IF r.raised THEN flt_visible ELSE flt_visible \o r.result
            /\ flt_status' = IF r.raised THEN "raised" ELSE "feeding"
    /\ UNCHANGED flt_text
    /\ UNCHANGED <<kernelVars, inboxVars, gatewayVars, sessionVars, singletonVars, busVars, signalVars, promptVars, discoveryVars, sharedVars>>

\* ------------------------------------------------------------------------
\* MCPServerManager.get_instance (tools/mcp_server_manager.py)
\*
\* The coroutines run on the one thread of the event loop: a coroutine runs
\* from one await that suspends it to the next without interruption.
\* cls._lock is a threading.Lock: acquiring it while it is held blocks the
\* thread, and with it the event loop and every coroutine.  The
\* configuration file is present and valid.
\* ------------------------------------------------------------------------
Coroutines == {"k1", "k2", "k3"}

\* the servers of servers_config
ConfiguredServers == {"p1", "p2"}

InitClass ==
    /\ sg_instance = 0
    /\ sg_initialized = FALSE
    /\ sg_lock = "free"
    /\ sg_thread = "loop"
    /\ sg_co = [k \in Coroutines |-> [pc |-> "new", ret |-> 0, answered |-> {}, tools |-> EmptyCache]]
    /\ sg_inits = 0
    /\ sg_pending = {}
    /\ sg_sessions = <<>>
    /\ sg_results = [p \in ConfiguredServers |-> "none"]
    /\ sg_tool_cache = EmptyCache
    /\ sg_cache_timestamp = "none"

\* coroutine k calls get_instance() and runs up to its first suspension:
\* lines 150-153 create the instance if there is none (the lock is free
\* then, it is only ever held by a coroutine inside initialize()); lines
\* 155-159 return at once when the class is initialized, else acquire the
\* lock, which blocks the thread when a suspended coroutine holds it, and
\* call initialize(), which is suspended in asyncio.gather
GetInstance(k) ==
    /\ sg_thread = "loop"
    /\ sg_co[k].pc = "new"
    /\ sg_instance' = IF sg_instance = 0 THEN 1 ELSE sg_instance
    /\ IF sg_initialized
       THEN /\ sg_co' = [sg_co EXCEPT ![k].pc = "returned", ![k].ret = sg_instance']
            /\ UNCHANGED <<sg_lock, sg_thread, sg_inits, sg_pending, sg_sessions, sg_results>>
       ELSE IF sg_lock # "free"
       THEN /\ sg_thread' = k
            /\ sg_co' = [sg_co EXCEPT ![k].pc = "blocked"]
            /\ UNCHANGED <<sg_lock, sg_inits, sg_pending, sg_sessions, sg_results>>
       ELSE /\ sg_lock' = k
            /\ sg_inits' = sg_inits + 1
            /\ sg_sessions' = <<>>
            /\ sg_results' = [p \in ConfiguredServers |-> "none"]
            /\ sg_pending' = ConfiguredServers
            /\ sg_co' = [sg_co EXCEPT ![k].pc = "initialize"]
            /\ UNCHANGED sg_thread
    /\ UNCHANGED <<sg_initialized, sg_tool_cache, sg_cache_timestamp>>
    /\ UNCHANGED <<kernelVars, inboxVars, gatewayVars, sessionVars, filterVars, busVars, signalVars, promptVars, discoveryVars, sharedVars>>

\* an _initialize_server that stores the session before session.initialize()
\* has answered
InitializeServerEager(p) ==
    /\ sg_thread = "loop"
    /\ p \in sg_pending
    /\ sg_pending' = sg_pending \ {p}
    /\ \E ok \in BOOLEAN :
          /\ sg_sessions' = Append(sg_sessions, p)
          /\ sg_results' = [sg_results EXCEPT ![p] = IF ok THEN "ok" ELSE "exception"]
    /\ UNCHANGED <<sg_instance, sg_initialized, sg_lock, sg_thread, sg_co, sg_inits,
                   sg_tool_cache, sg_cache_timestamp>>
    /\ UNCHANGED <<kernelVars, inboxVars, gatewayVars, sessionVars, filterVars, busVars, signalVars, promptVars, discoveryVars, sharedVars>>

\* _initialize_server of server p ends, with a session stored under its name
\* (ok) or with an exception; gather puts the outcome into results; the event
\* loop must be running
InitializeServer(p) ==
    /\ sg_thread = "loop"
    /\ p \in sg_pending
    /\ sg_pending' = sg_pending \ {p}
    /\ \E ok \in BOOLEAN :
          /\ sg_sessions' = IF ok THEN Append(sg_sessions, p) ELSE sg_sessions
          /\ sg_results' = [sg_results EXCEPT ![p] = IF ok THEN "ok" ELSE "exception"]
    /\ UNCHANGED <<sg_instance, sg_initialized, sg_lock, sg_thread, sg_co, sg_inits,
                   sg_tool_cache, sg_cache_timestamp>>
    /\ UNCHANGED <<kernelVars, inboxVars, gatewayVars, sessionVars, filterVars, busVars, signalVars, promptVars, discoveryVars, sharedVars>>

\* gather is done: initialize() returns to coroutine k, which sets
\* _initialized, leaves the with block and returns the instance
InitializeReturn(k) ==
    /\ sg_thread = "loop"
    /\ sg_co[k].pc = "initialize"
    /\ sg_pending = {}
    /\ sg_initialized' = TRUE
    /\ sg_lock' = "free"
    /\ sg_co' = [sg_co EXCEPT ![k].pc = "returned", ![k].ret = sg_instance]
    /\ UNCHANGED <<sg_instance, sg_thread, sg_inits, sg_pending, sg_sessions, sg_results,
                   sg_tool_cache, sg_cache_timestamp>>
    /\ UNCHANGED <<kernelVars, inboxVars, gatewayVars, sessionVars, filterVars, busVars, signalVars, promptVars, discoveryVars, sharedVars>>

NextSingleton ==
    \/ \E k \in Coroutines : GetInstance(k)
    \/ \E p \in ConfiguredServers : InitializeServer(p)
    \/ \E k \in Coroutines : InitializeReturn(k)


\* the cache after _refresh_tool_cache over the sessions from position i on,
\* when the providers of answered answer and the others raise
RECURSIVE RefreshToolCache(_, _, _, _)
RefreshToolCache(sessions, answered, i, cache) ==
    IF i > Len(sessions) THEN cache
    ELSE RefreshToolCache(sessions, answered, i + 1,
                          IF sessions[i] \in answered
                          THEN ParseToolsResponse(cache, sessions[i]) ELSE cache)

\* coroutine k, which holds the instance, calls list_tools():
\* RuntimeError without a session (lines 319-320); a cache whose timestamp is
\* set is returned as it is (the TTL has not run out), else the cache is
\* filled from the sessions (lines 275-286) and returned
ListTools(k) ==
    /\ sg_thread = "loop"
    /\ sg_co[k].pc = "returned"
    /\ IF sg_sessions = <<>>
       THEN /\ sg_co' = [sg_co EXCEPT ![k].pc = "list_raised"]
            /\ UNCHANGED <<sg_tool_cache, sg_cache_timestamp>>
       ELSE IF sg_cache_timestamp = "set"
       THEN /\ sg_co' = [sg_co EXCEPT ![k].pc = "listed", ![k].tools = sg_tool_cache]
            /\ UNCHANGED <<sg_tool_cache, sg_cache_timestamp>>
       ELSE \E answered \in SUBSET {sg_sessions[i] : i \in 1..Len(sg_sessions)} :
                /\ sg_tool_cache' = RefreshToolCache(sg_sessions, answered, 1, EmptyCache)
                /\ sg_cache_timestamp' = "set"
                /\ sg_co' = [sg_co EXCEPT
                                ![k].pc = "listed",
                                ![k].answered = answered,
                                ![k].tools = sg_tool_cache']
    /\ UNCHANGED <<sg_instance, sg_initialized, sg_lock, sg_thread, sg_inits, sg_pending,
                   sg_sessions, sg_results>>
    /\ UNCHANGED <<kernelVars, inboxVars, gatewayVars, sessionVars, filterVars, busVars, signalVars, promptVars, discoveryVars, sharedVars>>

\* coroutine k, which holds the instance, calls cleanup() and is suspended in
\* exit_stack.aclose() (lines 390-392)
CleanupBegin(k) ==
    /\ sg_thread = "loop"
    /\ sg_co[k].pc \in {"returned", "listed", "list_raised"}
    /\ sg_co' = [sg_co EXCEPT ![k].pc = "cleanup"]
    /\ UNCHANGED <<sg_instance, sg_initialized, sg_lock, sg_thread, sg_inits, sg_pending,
                   sg_sessions, sg_results, sg_tool_cache, sg_cache_timestamp>>
    /\ UNCHANGED <<kernelVars, inboxVars, gatewayVars, sessionVars, filterVars, busVars, signalVars, promptVars, discoveryVars, sharedVars>>

\* a cleanup() that resets the manager at the end of the try block only
CleanupEndInTry(k) ==
    /\ sg_thread = "loop"
    /\ sg_co[k].pc = "cleanup"
    /\ \E outcome \in {"closed", "exception", "cancelled"} :
          /\ sg_co' = [sg_co EXCEPT ![k].pc = IF outcome = "cancelled" THEN "cleanup_raised"
                                                                        ELSE "cleaned"]
          /\ IF outcome = "closed"
             THEN /\ sg_sessions' = <<>>
                  /\ sg_tool_cache' = EmptyCache
                  /\ sg_cache_timestamp' = "none"
                  /\ sg_initialized' = FALSE
             ELSE UNCHANGED <<sg_sessions, sg_tool_cache, sg_cache_timestamp, sg_initialized>>
    /\ UNCHANGED <<sg_instance, sg_lock, sg_thread, sg_inits, sg_pending, sg_results>>
    /\ UNCHANGED <<kernelVars, inboxVars, gatewayVars, sessionVars, filterVars, busVars, signalVars, promptVars, discoveryVars, sharedVars>>

\* exit_stack.aclose() ends for coroutine k: it has closed the resources, or
\* raised an Exception, which line 393 catches, or a CancelledError, which
\* leaves cleanup(); the finally block (lines 395-399) runs in each case
CleanupEnd(k) ==
    /\ sg_thread = "loop"
    /\ sg_co[k].pc = "cleanup"
    /\ \E outcome \in {"closed", "exception", "cancelled"} :
          sg_co' = [sg_co EXCEPT ![k].pc = IF outcome = "cancelled" THEN "cleanup_raised"
                                                                     ELSE "cleaned"]
    /\ sg_sessions' = <<>>
    /\ sg_tool_cache' = EmptyCache
    /\ sg_cache_timestamp' = "none"
    /\ sg_initialized' = FALSE
    /\ UNCHANGED <<sg_instance, sg_lock, sg_thread, sg_inits, sg_pending, sg_results>>
    /\ UNCHANGED <<kernelVars, inboxVars, gatewayVars, sessionVars, filterVars, busVars, signalVars, promptVars, discoveryVars, sharedVars>>

\* ---------------------------------------------------------------------------
\* RedisBus.publish_message (utils/redis_bus.py): one caller publishing over
\* the class-wide client.  Clients are numbered in the order Redis(...) builds
\* them; 0 stands for None.
\* ---------------------------------------------------------------------------

\* the number of publish_message calls of one behaviour
MaxPublishes == 4

NoPublish == [pc |-> "idle", tries |-> 0, sent |-> 0, delivered |-> 0, used |-> <<>>]

InitBus ==
    /\ bus_client = 0
    /\ bus_created = 0
    /\ bus_closed = {}
    /\ bus_call = NoPublish
    /\ bus_calls = <<>>

\* _ensure_client with a client table that hands a closed client out again
EnsureClientReuse(client, created) ==
    IF client # 0
    THEN [client |-> client, created |-> created]
    ELSE [client |-> IF created = 0 THEN 1 ELSE created,
          created |-> IF created = 0 THEN 1 ELSE created]

\* _ensure_client: the existing client, or a new Redis(...) stored in cls._client
EnsureClient(client, created) ==
    IF client # 0
    THEN [client |-> client, created |-> created]
    ELSE [client |-> created + 1, created |-> created + 1]

\* one attempt of publish_message with cls._client = client: _ensure_client
\* (the ping of a new client answers ping_ok), then client.publish (which
\* answers pub_ok); the first failure enters the except block, the second is
\* raised to the caller
Attempt(client, ping_ok, pub_ok) ==
    LET e   == EnsureClient(client, bus_created)
        rpc == client # 0 \/ ping_ok
        ok  == rpc /\ pub_ok
    IN  /\ bus_client' = e.client
        /\ bus_created' = e.created
        /\ bus_call' = [bus_call EXCEPT
                            !.tries = @ + 1,
                            !.sent = @ + (IF rpc THEN 1 ELSE 0),
                            !.delivered = @ + (IF ok THEN 1 ELSE 0),
                            !.used = Append(@, e.client),
                            !.pc = IF ok THEN "returned"
                                   ELSE IF bus_call.tries = 0 THEN "except" ELSE "raised"]

\* the try block of publish_message
PublishTry ==
    /\ bus_call.pc = "idle"
    /\ Len(bus_calls) < MaxPublishes
    /\ UNCHANGED bus_calls
    /\ \E ping_ok \in BOOLEAN, pub_ok \in BOOLEAN : Attempt(bus_client, ping_ok, pub_ok)
    /\ UNCHANGED bus_closed
    /\ UNCHANGED <<kernelVars, inboxVars, gatewayVars, sessionVars, filterVars, singletonVars, signalVars, promptVars, discoveryVars, sharedVars>>

\* the except block of publish_message: close and forget the client, then
\* _ensure_client and client.publish once more, outside any try
PublishRetry ==
    /\ bus_call.pc = "except"
    /\ bus_closed' = IF bus_client # 0 THEN bus_closed \cup {bus_client} ELSE bus_closed
    /\ \E ping_ok \in BOOLEAN, pub_ok \in BOOLEAN : Attempt(0, ping_ok, pub_ok)
    /\ UNCHANGED bus_calls
    /\ UNCHANGED <<kernelVars, inboxVars, gatewayVars, sessionVars, filterVars, singletonVars, signalVars, promptVars, discoveryVars, sharedVars>>

\* the caller has the subscriber count or the exception; it may call again
PublishDone ==
    /\ bus_call.pc \in {"returned", "raised"}
    /\ bus_calls' = Append(bus_calls, bus_call.pc)
    /\ bus_call' = NoPublish
    /\ UNCHANGED <<bus_client, bus_created, bus_closed>>
    /\ UNCHANGED <<kernelVars, inboxVars, gatewayVars, sessionVars, filterVars, singletonVars, signalVars, promptVars, discoveryVars, sharedVars>>

\* ---------------------------------------------------------------------------
\* SIGINT (utils/signals.py) during the run of execute_task.  The run is the
\* task _run_agent_with_interrupt creates and keeps in interaction._current_task
\* (interaction.py lines 94-100); no statement of the repository assigns
\* signals._current_task, the variable the handler reads.
\* ---------------------------------------------------------------------------

InitSignals ==
    /\ signals_current_task = "none"
    /\ signals_interrupt_requested = FALSE

\* _signal_handler: cancel the task when there is one that is not done, else
\* sys.exit(0); with the process gone no run goes on
Sigint ==
    /\ pc # "exited"
    /\ IF signals_current_task # "none" /\ pc \in {"loop", "stream", "handle"}
       THEN /\ signals_interrupt_requested' = TRUE
            /\ pc' = "cancelled"
       ELSE /\ pc' = "exited"
            /\ UNCHANGED signals_interrupt_requested
    /\ UNCHANGED signals_current_task
    /\ UNCHANGED <<task, now, total_start, total_timeout, script, split, stream,
                   last_action_payload, last_communication_payload, last_final_answer,
                   scratchpad, qa_history, llm_calls, tool_calls, published, dispatched, emitted>>
    /\ UNCHANGED <<inboxVars, gatewayVars, sessionVars, filterVars, singletonVars, busVars, promptVars, discoveryVars, sharedVars>>

\* the task that runs kernel.run is cancelled while the run is suspended at
\* an await (interaction.py line 117, monitor_manager.py line 108):
\* CancelledError is no Exception, so the handler of execute_task at lines
\* 149-153 is passed by and the error leaves execute_task
CancelRun ==
    /\ pc \in {"loop", "stream", "handle"}
    /\ pc' = "cancelled"
    /\ UNCHANGED <<task, now, total_start, total_timeout, script, split, stream,
                   last_action_payload, last_communication_payload, last_final_answer,
                   scratchpad, qa_history, llm_calls, tool_calls, published, dispatched, emitted>>
    /\ UNCHANGED <<inboxVars, gatewayVars, sessionVars, filterVars, singletonVars, busVars, signalVars, promptVars, discoveryVars, sharedVars>>

\* ---------------------------------------------------------------------------
\* Session.build_llm_messages (core/session.py lines 134-184) as a function of
\* the context, the task description and the scratchpad.  A message is a
\* record of role and content; NoMessage is a slot that ctx.get finds falsy.
\* ---------------------------------------------------------------------------
NoMessage == [role |-> "none", content |-> ""]

\* the slots in the order of the if statements at lines 143-169
SlotOrder ==
    <<"system_prompt", "tool_policy", "available_tools", "memory_context", "current_time",
      "active_sessions", "react_prompt">>

\* the entries of qa_history that line 174 lets through
KeptInPrompt(m) == m.role \in {"user", "assistant"} /\ m.content # ""

\* the result with the task description put before the history
BuildLlmMessagesTaskFirst(ctx, description, pad) ==
    SelectSeq([i \in 1..Len(SlotOrder) |-> ctx.slots[SlotOrder[i]]], LAMBDA m : m # NoMessage)
    \o (IF description # "" THEN <<[role |-> "user", content |-> description]>> ELSE <<>>)
    \o SelectSeq(ctx.qa_history, KeptInPrompt)
    \o pad

\* build_llm_messages: the list it returns
BuildLlmMessages(ctx, description, pad) ==
    SelectSeq([i \in 1..Len(SlotOrder) |-> ctx.slots[SlotOrder[i]]], LAMBDA m : m # NoMessage)
    \o SelectSeq(ctx.qa_history, KeptInPrompt)
    \o (IF description # "" THEN <<[role |-> "user", content |-> description]>> ELSE <<>>)
    \o pad

\* the contexts, descriptions and scratchpads the function is applied to
PromptInputs ==
    [ctx : [slots : {[s \in {SlotOrder[i] : i \in 1..Len(SlotOrder)} |->
                          IF s \in present THEN [role |-> "system", content |-> s]
                          ELSE NoMessage]
                     : present \in SUBSET {SlotOrder[i] : i \in 1..Len(SlotOrder)}},
            qa_history : {<<>>,
                          <<[role |-> "user", content |-> "u1"]>>,
                          <<[role |-> "user", content |-> "u1"],
                            [role |-> "assistant", content |-> "a1"]>>,
                          <<[role |-> "user", content |-> "u1"],
                            [role |-> "system_scheduler", content |-> "ev"],
                            [role |-> "assistant", content |-> ""],
                            [role |-> "assistant", content |-> "a1"]>>}],
     description : {"", "q"},
     scratchpad : {<<>>, <<[role |-> "assistant", content |-> "Action"],
                           [role |-> "user", content |-> "Observation"]>>}]

InitPrompt ==
    /\ bm_in = [ctx |-> [slots |-> [s \in {SlotOrder[i] : i \in 1..Len(SlotOrder)} |-> NoMessage],
                         qa_history |-> <<>>],
                description |-> "", scratchpad |-> <<>>]
    /\ bm_out = [called |-> FALSE, messages |-> <<>>]

\* one call of build_llm_messages: it assigns to nothing but its local list
BuildCall ==
    /\ ~bm_out.called
    /\ bm_out' = [called |-> TRUE,
                  messages |-> BuildLlmMessages(bm_in.ctx, bm_in.description, bm_in.scratchpad)]
    /\ UNCHANGED bm_in
    /\ UNCHANGED <<kernelVars, inboxVars, gatewayVars, sessionVars, filterVars, singletonVars, busVars, signalVars, discoveryVars, sharedVars>>
\* ------------------------------------------------------------------------
\* Specifications
\* ------------------------------------------------------------------------
vars == <<kernelVars, inboxVars, gatewayVars, sessionVars, filterVars, singletonVars, busVars,
         signalVars, promptVars, discoveryVars, sharedVars>>

NextKernel ==
    \/ Run
    \/ Tick
    \/ LoopHead
    \/ StreamChunk
    \/ StreamEnd
    \/ HandleIteration

\* one run of execute_task, for every script, budget and timeout
InitRuns == InitKernel /\ InitInbox /\ InitGateway /\ InitSessionFile /\ InitFilter /\ InitClass /\ InitBus /\ InitSignals /\ InitPrompt /\ InitDiscovery /\ InitShared

SpecKernel == InitRuns /\ [][NextKernel]_vars

\* the same run when every call the kernel awaits returns: the kernel is
\* never suspended for ever, only the clock may stop
FairSpecKernel ==
    /\ InitRuns
    /\ [][NextKernel]_vars
    /\ WF_vars(Run \/ LoopHead \/ StreamChunk \/ StreamEnd \/ HandleIteration)

\* the runs with a provider that may time out while it streams
SpecTimeout == InitRuns /\ [][NextKernel \/ StreamRaise]_vars

\* one turn of the text of the chunk-boundary property, cut anywhere
InitStream == NewKernel(1, MaxTime, "action_only", "any") /\ InitInbox /\ InitGateway /\ InitSessionFile /\ InitFilter /\ InitClass /\ InitBus /\ InitSignals /\ InitPrompt /\ InitDiscovery /\ InitShared

SpecStream == InitStream /\ [][NextKernel]_vars

\* the chat loop and the two listeners of one session
InitSession == NewKernel(1, MaxTime, "action_only", "marks") /\ InitInbox /\ InitGateway /\ InitSessionFile /\ InitFilter /\ InitClass /\ InitBus /\ InitSignals /\ InitPrompt /\ InitDiscovery /\ InitShared

SpecInbox == InitSession /\ [][NextInbox]_vars

\* the callers of the tool cache
InitManager == NewKernel(1, MaxTime, "action_only", "marks") /\ InitInbox /\ InitGateway /\ InitSessionFile /\ InitFilter /\ InitClass /\ InitBus /\ InitSignals /\ InitPrompt /\ InitDiscovery /\ InitShared

SpecGateway == InitManager /\ [][NextGateway]_vars


\* the operations of one Session and its file
InitPersistence ==
    NewKernel(1, MaxTime, "action_only", "marks") /\ InitInbox /\ InitGateway /\ InitSessionFile /\ InitFilter /\ InitClass /\ InitBus /\ InitSignals /\ InitPrompt /\ InitDiscovery /\ InitShared

SpecSession == InitPersistence /\ [][NextSession]_vars

\* one filter fed every chunking of one of three texts
InitFeed ==
    /\ NewKernel(1, MaxTime, "action_only", "marks") /\ InitInbox /\ InitGateway
    /\ InitSessionFile /\ InitClass /\ InitBus /\ InitSignals /\ InitPrompt /\ InitDiscovery /\ InitShared
    /\ flt_text \in {TxtMixedTags, TxtLooseTags, TxtEmptyTag}
    /\ flt_pos = 0
    /\ flt_f = NewFilter
    /\ flt_visible = <<>>
    /\ flt_status = "feeding"

SpecFilter == InitFeed /\ [][FeedChunk]_vars

\* coroutines of one event loop calling MCPServerManager.get_instance()
InitProcess ==
    NewKernel(1, MaxTime, "action_only", "marks") /\ InitInbox /\ InitGateway /\ InitSessionFile /\ InitFilter /\ InitClass /\ InitBus /\ InitSignals /\ InitPrompt /\ InitDiscovery /\ InitShared

\* the event loop keeps running what is ready and every connection attempt
\* ends: a step that can be taken is taken
FairSpecSingleton == InitProcess /\ [][NextSingleton]_vars /\ WF_vars(NextSingleton)

\* publish_message calls of one caller against a Redis server that may fail
SpecBus == InitProcess /\ [][PublishTry \/ PublishRetry \/ PublishDone]_vars

\* both listeners subscribed and registered, one message published to them
InitSubscribed ==
    /\ NewKernel(1, MaxTime, "action_only", "marks")
    /\ InitGateway /\ InitSessionFile /\ InitFilter /\ InitClass /\ InitBus /\ InitSignals /\ InitPrompt /\ InitDiscovery /\ InitShared
    /\ session_lock = "none"
    /\ \E m \in BusMessages : inbox = [l \in Listeners |-> <<m>>]
    /\ runs = [c \in Callers |-> NoRun]
    /\ inbox_qa = <<>>
    /\ handled = <<>>
    /\ msgs_sent = 1
    /\ user_runs = 0
    /\ listener = [l \in Listeners |-> [pc |-> "listening", agen |-> "open",
                                         sub |-> "subscribed", online |-> TRUE,
                                         poll_errors |-> 0]]

\* the listeners and the runs they dispatch, with the listener tasks cancelled
\* at any await
SpecListener ==
    InitSubscribed /\
    [][\/ MonitorHandle
       \/ TriggerHandle
       \/ \E c \in Callers : RunBegin(c) \/ RunIterate(c) \/ RunEnd(c)
       \/ \E l \in Listeners :
             CancelListener(l) \/ GeneratorFinally(l) \/ ListenerFinally(l)]_vars

\* runs of execute_task in a process that may receive SIGINT at any moment
SpecInterrupt == InitRuns /\ [][NextKernel \/ Sigint]_vars

\* the iterations of the long run
LongRunIterations == 40

\* a task with a large budget whose every turn is thinking only
InitLongRun ==
    NewKernel(LongRunIterations, MaxTime, "thinking_only", "marks") /\ InitInbox /\ InitGateway /\ InitSessionFile /\ InitFilter /\ InitClass /\ InitBus /\ InitSignals /\ InitPrompt /\ InitDiscovery /\ InitShared

SpecLongRun == InitLongRun /\ [][NextKernel]_vars

\* build_llm_messages applied to every input of PromptInputs
InitBuild ==
    /\ NewKernel(1, MaxTime, "action_only", "marks")
    /\ InitInbox /\ InitGateway /\ InitSessionFile /\ InitFilter /\ InitClass /\ InitBus
    /\ InitSignals /\ InitDiscovery /\ InitShared
    /\ bm_in \in PromptInputs
    /\ bm_out = [called |-> FALSE, messages |-> <<>>]

SpecPrompt == InitBuild /\ [][BuildCall]_vars

\* get_instance with the startup of the providers, then the first list_tools
SpecStartup == InitProcess /\ [][NextSingleton \/ \E k \in Coroutines : ListTools(k)]_vars

\* get_instance, list_tools and cleanup called by the coroutines of one event
\* loop
SpecShutdown ==
    InitProcess /\ [][\/ NextSingleton
                      \/ \E k \in Coroutines : ListTools(k)
                      \/ \E k \in Coroutines : CleanupBegin(k)
                      \/ \E k \in Coroutines : CleanupEnd(k)]_vars

\* a run of three turns while sessions register and unregister and Redis
\* comes and goes
InitDiscoveryRun ==
    /\ NewKernel(MaxIter, MaxTime, "thinking_only", "marks") /\ InitInbox /\ InitGateway
    /\ InitSessionFile /\ InitFilter /\ InitClass /\ InitBus /\ InitSignals /\ InitPrompt
    /\ InitDiscovery /\ InitShared

SpecDiscovery ==
    InitDiscoveryRun /\ [][\/ NextKernel
                           \/ \E sid \in SessionIds : RegisterSession(sid)
                           \/ \E sid \in SessionIds : UnregisterSession(sid)
                           \/ RedisFlap]_vars

\* the callers of the manager while every provider answers its discovery RPCs
SpecGatewayUp ==
    InitManager /\ [][\/ GTick
                      \/ \E c \in Clients : CallStart(c)
                      \/ \E c \in Clients : RefreshAnswer(c, TRUE)
                      \/ \E c \in Clients : ExecAttempt(c)
                      \/ \E c \in Clients : ExecSleep(c)
                      \/ \E c \in Clients : CallReturn(c)]_vars

\* the runs with a provider that may time out and a caller that may cancel
SpecCancel == InitRuns /\ [][NextKernel \/ StreamRaise \/ CancelRun]_vars

\* the listener's and the kernel's Session objects appending to one file
SpecSharedFile ==
    InitPersistence /\ [][(\E o \in SessionObjects : SharedAppendQa(o)) \/ SharedNewSession]_vars

\* the two listeners of one session and the runs they start
SpecInboxTurns ==
    InitSession /\ [][\/ BusDeliver
                      \/ MonitorHandle
                      \/ TriggerHandle
                      \/ \E c \in Listeners : RunBegin(c)
                      \/ \E c \in Listeners : RunEnd(c)]_vars

\* the sequences of n messages, each one accepted by both listeners or sent
\* by the session itself
Backlog(n) ==
    [1..n -> {Msg(<<"A">>, <<SessionId>>, TxtPing), Msg(<<SessionId>>, <<SessionId>>, TxtPing)}]

\* both subscriptions hold MaxMsgs messages that were published
InitBacklog ==
    /\ NewKernel(1, MaxTime, "action_only", "marks")
    /\ InitGateway /\ InitSessionFile /\ InitFilter /\ InitClass /\ InitBus /\ InitSignals /\ InitPrompt /\ InitDiscovery /\ InitShared
    /\ session_lock = "none"
    /\ \E b \in Backlog(MaxMsgs) : inbox = [l \in Listeners |-> b]
    /\ runs = [c \in Callers |-> NoRun]
    /\ inbox_qa = <<>>
    /\ handled = <<>>
    /\ msgs_sent = MaxMsgs
    /\ user_runs = 0
    /\ listener = [l \in Listeners |-> [pc |-> "listening", agen |-> "open",
                                         sub |-> "subscribed", online |-> TRUE,
                                         poll_errors |-> 0]]

\* session_inbox_monitor while its runs fail, its polling fails and its task
\* is cancelled
SpecResilient ==
    InitBacklog /\
    [][\/ MonitorHandle
       \/ RunBegin("monitor") \/ RunEnd("monitor") \/ RunFail("monitor")
       \/ PollError("monitor") \/ PollResume("monitor")
       \/ CancelListener("monitor") \/ GeneratorFinally("monitor")
       \/ ListenerFinally("monitor")]_vars

\* a run whose first turn is an action and whose later turns are thinking only
InitTurns ==
    /\ \E max_iter \in 1..MaxIter : NewKernel(max_iter, MaxTime, "action_then_thinking", "marks")
    /\ InitInbox /\ InitGateway /\ InitSessionFile /\ InitFilter /\ InitClass /\ InitBus /\ InitSignals /\ InitPrompt /\ InitDiscovery /\ InitShared

SpecTurns == InitTurns /\ [][NextKernel]_vars
\* ------------------------------------------------------------------------
\* Properties
\* ------------------------------------------------------------------------
Last(s) == s[Len(s)]

Finished == pc \in {"done", "failed"}

\* the payload {"tool":"t","arguments":{"x":1}} as (tool, arguments)
ToolTWithX1 == NamePair(<<"t">>, MapPut(EmptyMap, <<"x">>, [t |-> "num", s |-> <<"1">>]))

\* C1: chunk-boundary invariance.  However the text
\* <action>{"tool":"t","arguments":{"x":1}}</action> is cut into chunks, once
\* _stream_llm_call has streamed it through the filter the captured action
\* payload parses to tool "t" with arguments {"x":1}.  (SpecStream)
C1_ChunkBoundaryInvariance ==
    (script = "action_only" /\ pc = "handle")
        => ParseActionJson(last_action_payload) = ToolTWithX1

\* C2: action-then-answer.  When the first turn is a well-formed action and
\* the second a well-formed final answer "hi", a run with a budget of at
\* least two iterations that does not time out returns "hi" with
\* current_iteration = 2, after 2 LLM calls and 1 tool call, however the
\* turns are cut into chunks.  (SpecKernel)
C2_ActionThenAnswer ==
    (/\ script = "action_then_answer"
     /\ task.max_iterations >= 2
     /\ ~TimedOut(now, total_start, total_timeout)
     /\ Finished)
        => /\ task.result = Answer(<<"h", "i">>)
           /\ task.current_iteration = 2
           /\ llm_calls = 2
           /\ Len(tool_calls) = 1

\* C3: bounded termination.  The iteration counter and the number of LLM
\* turns never exceed task.max_iterations, no iteration is started once the
\* elapsed time exceeds the total timeout, and when every awaited call
\* returns the run ends.  (FairSpecKernel)
C3_BoundedTermination ==
    /\ [](task.current_iteration <= task.max_iterations /\ llm_calls <= task.max_iterations)
    /\ [][TimedOut(now, total_start, total_timeout)
            => task'.current_iteration = task.current_iteration /\ llm_calls' = llm_calls]_vars
    /\ <>Finished

\* a run that used its whole budget of more than one iteration and returned
\* the sentinel
C3_Witness ==
    /\ pc = "done"
    /\ task.result = Sentinel
    /\ task.max_iterations > 1
    /\ task.current_iteration = task.max_iterations
    /\ llm_calls = task.max_iterations

AllFallback == \A i \in DOMAIN dispatched : dispatched[i] = "fallback"

ValidActionDocument(raw) ==
    LET r == JsonLoads(Cleaned(raw))
    IN  /\ r.ok
        /\ r.val.t = "obj"
        /\ KeyTool \in DOMAIN r.val.m
        /\ KeyArguments \in DOMAIN r.val.m
        /\ r.val.m[KeyArguments].t = "obj"

\* C5: a malformed turn never ends the task.  An iteration whose action
\* payload is not a valid {tool, arguments: object} document raises nothing,
\* takes the fallback path and leaves the task running, so that the loop goes
\* on.  (SpecKernel)
C5_MalformedTurnNotFatal ==
    [][(/\ pc = "handle"
        /\ last_final_answer = <<>>
        /\ last_action_payload # <<>>
        /\ ~ValidActionDocument(last_action_payload))
          => /\ pc' = "loop"
             /\ task'.status = "running"
             /\ dispatched' = Append(dispatched, "fallback")]_vars

\* C6: dispatch priority.  An iteration dispatches by the order final
\* answer, action, communication: with a final answer it calls no tool and
\* publishes nothing and the run returns; without one, a valid action is
\* called and nothing is published; a communication is published only when
\* there is neither.  When two or more of them are present exactly one
\* outcome is dispatched.  (SpecKernel)
C6_DispatchPriority ==
    [][(pc = "handle" /\ pc' # "handle")
          => LET a == ParseActionJson(last_action_payload)
                 c == ParseCommunicationJson(last_communication_payload)
                 fin == last_final_answer # <<>>
                 act == a.kind = "pair" /\ a.name # <<>>
                 com == c.target # <<>> /\ last_communication_payload # <<>>
             IN  /\ fin => tool_calls' = tool_calls /\ published' = published
                 /\ (act /\ com) => published' = published
                 /\ ((fin /\ act) \/ (fin /\ com) \/ (act /\ com))
                      => /\ Len(dispatched') = Len(dispatched) + 1
                         /\ Len(tool_calls') + Len(published')
                              = Len(tool_calls) + Len(published)
                                + (IF Last(dispatched') = "final_answer" THEN 0 ELSE 1)
                         /\ Last(dispatched') =
                              (IF fin THEN "final_answer" ELSE "action")
                         /\ fin => pc' = "done" /\ task'.result.kind = "answer"
                         /\ ~fin => Len(tool_calls') = Len(tool_calls) + 1]_vars

\* a turn with a valid action and a final answer was dispatched as a final
\* answer, and no tool was called
C6_Witness ==
    /\ script = "action_final"
    /\ pc = "done"
    /\ last_final_answer # <<>>
    /\ ParseActionJson(last_action_payload).name = <<"t">>
    /\ dispatched = <<"final_answer">>
    /\ tool_calls = <<>>
    /\ task.result = Answer(<<"h", "i">>)


\* the runs of the session that are executing
Running == {c \in Callers : runs[c].phase = "running"}

\* C7: per-session mutual exclusion of runs.  Whatever the interleaving of
\* the runs the user starts and the runs the inbox listeners start, at most
\* one run of the session is in progress at any time.  (SpecInbox)
C7_MutualExclusion == Cardinality(Running) <= 1

\* C8: inbox filtering and dispatch.  For every message with a non-empty
\* text that a listener of session B handled: when from is not B and to is B
\* or absent, the listener started one run whose task description is the
\* text of the message; when from is B or to names another session, it
\* started no run and left the history of B unchanged.  (SpecInbox)
C8_InboxFiltering ==
    \A i \in DOMAIN handled :
        LET h == handled[i]
            m == h.msg
        IN  m.message # <<>>
              => /\ (m.from # <<SessionId>> /\ m.to \in {<<SessionId>>, <<>>})
                      => (h.ran /\ h.description = m.message)
                 /\ (m.from = <<SessionId>> \/ m.to \notin {<<SessionId>>, <<>>})
                      => (~h.ran /\ h.qa_same)

\* the callers whose call is refreshing the cache
Refreshing == {c \in Clients : gw[c].pc = "refresh"}

\* C9: single refresh under concurrency.  When several coroutines call
\* list_tools or call_tool while the cache is stale, one refresh runs and the
\* other callers wait for it: at no time are two refreshes in progress.
\* (SpecGateway)
C9_SingleRefresh == Cardinality(Refreshing) <= 1

\* now - cache_timestamp < ttl, with a timestamp that has been set
InTtlWindow == cache_timestamp # 0 /\ clock - cache_timestamp < cache_ttl

\* C10: TTL caching.  A call made within the TTL window of the last refresh
\* issues no discovery RPC, leaves the cache and its timestamp alone and is
\* answered from the cache, so that two sequential list_tools calls within
\* the window cost at most one RPC per provider; a call made outside the
\* window empties the whole cache and starts one refresh; entries never
\* leave the cache one by one; an answer of a provider overwrites what
\* earlier providers wrote under the same names; and the one timestamp is
\* written when a refresh has asked the last provider.  (SpecGateway)
C10_TtlCaching ==
    [][\A c \in Clients :
         /\ (gw[c].pc = "idle" /\ gw'[c].pc # "idle")
              => IF InTtlWindow
                 THEN /\ rpcs' = rpcs
                      /\ tool_cache' = tool_cache
                      /\ cache_timestamp' = cache_timestamp
                      /\ gw'[c].pc \in {"done", "exec"}
                      /\ ~gw'[c].refreshed
                      /\ gw'[c].op = "list_tools" => gw'[c].result = tool_cache
                 ELSE /\ tool_cache' = EmptyCache
                      /\ rpcs' = [rpcs EXCEPT ![1] = rpcs[1] + 1]
                      /\ cache_timestamp' = cache_timestamp
                      /\ gw'[c].pc = "refresh"
         /\ (tool_cache' # EmptyCache) => DOMAIN tool_cache \subseteq DOMAIN tool_cache'
         /\ (gw[c].pc = "refresh" /\ gw'[c].got # gw[c].got)
              => \A p \in gw'[c].got \ gw[c].got :
                   \A n \in DOMAIN tool_cache' :
                     tool_cache'[n] = IF n \in ServerTools(p) THEN p ELSE tool_cache[n]
         /\ (cache_timestamp' # cache_timestamp)
              => /\ cache_timestamp' = clock
                 /\ \E d \in Clients : gw[d].pc = "refresh" /\ gw[d].idx = Len(Servers)
                                        /\ gw'[d].pc \in {"done", "exec"}
      ]_vars

\* two list_tools calls in a row by one caller, the second within the TTL
\* window of the refresh of the first: it was answered from the cache, every
\* provider has received one discovery RPC, and the tool that both
\* providers report is the one of the later provider
C10_Witness ==
    /\ calls = 2
    /\ gw["c1"].pc = "done"
    /\ gw["c1"].op = "list_tools"
    /\ ~gw["c1"].refreshed
    /\ gw["c2"] = Idle
    /\ clock > cache_timestamp
    /\ rpcs = [i \in 1..Len(Servers) |-> 1]
    /\ gw["c1"].result = tool_cache
    /\ DOMAIN tool_cache = {"t", "a", "b"}
    /\ tool_cache["t"] = "p2"

\* ------------------------------------------------------------------------
\* Session
\* ------------------------------------------------------------------------
\* C11: after clear_context() and append_qa of N valid messages, a new
\* Session with the same session_id reloads a qa_history that holds exactly
\* those N messages in the same order.
C11_RoundTrip ==
    [][(sess_op'.op = "load" /\ sess_log.clean) => sess_qa' = sess_log.msgs]_vars

\* C12: after any sequence of Session operations every entry of qa_history
\* has the role user or assistant.
C12_RoleInvariant ==
    \A i \in 1..Len(sess_qa) : sess_qa[i].role \in {"user", "assistant"}

\* C14: append_qa(msg) with a role of user or assistant and a non-empty
\* content extends qa_history by exactly msg at the end and writes the
\* session file; with any other message it leaves qa_history and the
\* session file unchanged.  (The file is written when it holds a document
\* whose qa_history reads back as the new qa_history.)
C14_AppendQaFrame ==
    [][sess_op'.op = "append_qa" =>
          IF sess_op'.msg.role \in {"user", "assistant"} /\ sess_op'.msg.content # <<>>
          THEN /\ sess_qa' = Append(sess_qa, sess_op'.msg)
               /\ sess_file'.kind = "json"
               /\ Len(sess_file'.qa_history) = Len(sess_qa')
               /\ \A i \in 1..Len(sess_qa') :
                     /\ sess_file'.qa_history[i].role = sess_qa'[i].role
                     /\ JsonUnescape(sess_file'.qa_history[i].content)
                            = sess_qa'[i].content
          ELSE /\ sess_qa' = sess_qa
               /\ sess_file' = sess_file]_vars

\* ------------------------------------------------------------------------
\* XMLStreamFilter fed chunk by chunk
\* ------------------------------------------------------------------------
\* C13: for every input and every chunking, the visible text returned by
\* process_chunk contains no character lying between a "<" and the
\* following ">" (both included): every visible character is a character of
\* the text passed so far at a position outside every tag, in text order.
\* (In the texts fed, no character occurs twice outside the tags.)
C13_TagsNeverVisible ==
    LET n == Len(flt_text)
        tagpos == {i \in 1..n :
                     \E a \in 1..i : \E b \in i..n :
                        /\ flt_text[a] = "<"
                        /\ flt_text[b] = ">"
                        /\ \A j \in a..(b - 1) : flt_text[j] # ">"}
        out == (1..flt_pos) \ tagpos
    IN /\ \A i \in 1..Len(flt_visible) : \E p \in out : flt_text[p] = flt_visible[i]
       /\ \A i \in 1..Len(flt_visible) : \A j \in (i + 1)..Len(flt_visible) :
             \E p \in out : \E q \in out :
                p < q /\ flt_text[p] = flt_visible[i] /\ flt_text[q] = flt_visible[j]

\* the text with the unrecognised and the mismatched tags has been passed
\* whole and the text of its sections returned
C13_Witness ==
    /\ flt_text = TxtMixedTags
    /\ flt_pos = Len(flt_text)
    /\ flt_visible = <<"A", "B", "C", "E", "F", ">", "G">>

\* ------------------------------------------------------------------------
\* MCPServerManager.call_tool
\* ------------------------------------------------------------------------
\* C15: call_tool(name, args) for a name absent from the freshly validated
\* tool cache fails with a tool-not-found error, and for a tool whose
\* provider has no connected session with a provider-unavailable error; in
\* both cases no call_tool RPC is sent to any provider.  (SpecGateway)
C15_LookupFailures ==
    [][\A c \in Clients :
         /\ (gw[c].pc \in {"idle", "refresh"} /\ gw'[c].pc \in {"done", "exec"}
               /\ gw'[c].op = "call_tool")
              => LET name == gw'[c].name
                     known == name \in DOMAIN tool_cache'
                     owner == IF gw'[c].server # "none" THEN gw'[c].server
                              ELSE tool_cache'[name]
                 IN  /\ ~known
                          => (gw'[c].pc = "done" /\ gw'[c].error = "ToolNotFound")
                     /\ (known /\ owner \notin {"p1", "p2"})
                          => (gw'[c].pc = "done" /\ gw'[c].error = "ServerUnavailable")
                     /\ (known /\ owner \in {"p1", "p2"})
                          => (gw'[c].pc = "exec" /\ gw'[c].target = owner)
         /\ gw'[c].error \in {"ToolNotFound", "ServerUnavailable"}
              => (gw'[c].pc = "done" /\ gw'[c].attempts = 0)
      ]_vars

\* after a refresh, one caller's call_tool has failed on an unknown tool and
\* the other's on a server without a session
C15_Witness ==
    /\ gw["c1"].pc = "done" /\ gw["c1"].error = "ToolNotFound" /\ gw["c1"].name = "zz"
    /\ gw["c1"].refreshed
    /\ gw["c2"].pc = "done" /\ gw["c2"].error = "ServerUnavailable" /\ gw["c2"].name = "t"
    /\ gw["c2"].server = "p3"
    /\ gw["c1"].attempts = 0 /\ gw["c2"].attempts = 0

\* C16: when the provider's call fails, call_tool retries it up to 2 times
\* after the failed first attempt, with a fixed delay between attempts; it
\* stops at the first successful attempt and returns that result, and when
\* all attempts fail it raises the error of the last attempt: a call has
\* slept the delay once per failed attempt that was retried, a call that
\* returned a result did so on its last attempt, and a call that raised the
\* execution error made 1 + 2 attempts and raised the error of the third.
\* (SpecGateway)
C16_BoundedRetry ==
    \A c \in Clients :
        /\ gw[c].attempts <= 1 + 2
        /\ gw[c].pc = "sleep" => gw[c].slept = 1 * (gw[c].attempts - 1)
        /\ gw[c].pc = "exec" => gw[c].slept = 1 * gw[c].attempts
        /\ (gw[c].pc = "done" /\ gw[c].attempts > 0)
             => /\ gw[c].slept = 1 * (gw[c].attempts - 1)
                /\ IF gw[c].error = "none"
                   THEN /\ gw[c].last_error = gw[c].attempts - 1
                        /\ gw[c].result = [n \in {gw[c].name} |-> gw[c].target]
                   ELSE /\ gw[c].error = "ToolExecutionError"
                        /\ gw[c].attempts = 1 + 2
                        /\ gw[c].last_error = 1 + 2

\* ------------------------------------------------------------------------
\* AgentKernel: failures and the final status
\* ------------------------------------------------------------------------
\* C17: when the tool gateway raises for a dispatched action, no exception
\* leaves the iteration: the task stays running, an "Observation: ERROR ..."
\* entry is appended to the scratchpad after the Action entry and the loop
\* goes on with its next test, however many tool failures came before.
\* (SpecKernel)
C17_ToolFailureIsObservation ==
    [][(pc = "handle" /\ Len(tool_calls') = Len(tool_calls) + 1
          /\ tool_calls'[Len(tool_calls')].raised)
         => /\ pc' = "loop"
            /\ task' = task
            /\ task.status = "running"
            /\ task.error_message = "none"
            /\ scratchpad' = scratchpad \o <<[role |-> "assistant", kind |-> "Action"],
                                             [role |-> "user", kind |-> "ObservationError"]>>
      ]_vars

\* two tool calls in a row have failed and the third iteration is under way
C17_Witness ==
    /\ Len(tool_calls) = 2
    /\ tool_calls[1].raised /\ tool_calls[2].raised
    /\ task.current_iteration = 3
    /\ task.status = "running"
    /\ pc = "stream"
    /\ Len(scratchpad) = 4

\* C18: when the loop exits without a final answer (iterations or time
\* exhausted), execute_task returns the budget-exhausted sentinel with
\* task.status completed and task.result the sentinel; when an exception
\* escapes the loop, task.status is failed and task.error_message is set
\* (the state "failed" is the exception raised again to the caller).
\* (SpecKernel)
C18_FinalStatus ==
    [][/\ (pc = "loop" /\ pc' # "stream")
            => /\ pc' = "done"
               /\ task'.status = "completed"
               /\ task'.result = [kind |-> "sentinel", text |-> <<>>]
               /\ task'.error_message = "none"
               /\ \/ task.current_iteration >= task.max_iterations
                  \/ now - total_start > total_timeout
       /\ (pc' = "done" /\ task'.result.kind = "sentinel")
            => (pc \in {"loop", "done"} /\ task'.status = "completed")
       /\ (pc' = "failed")
            => (task'.status = "failed" /\ task'.error_message # "none"
                  /\ task'.result.kind = "none")
       /\ (pc' = "done") => task'.status = "completed"
      ]_vars

\* the time ran out before the iterations did, after a tool call, and the
\* run has returned the sentinel
C18_Witness ==
    /\ pc = "done"
    /\ task.result.kind = "sentinel"
    /\ task.status = "completed"
    /\ task.current_iteration < task.max_iterations
    /\ now - total_start > total_timeout
    /\ Len(tool_calls) >= 1

\* C19: if the LLM stream raises TimeoutError during an iteration, the loop
\* ends without an exception for the caller, the run returns the
\* partial-completion sentinel and task.status is completed, not failed.
\* (SpecTimeout)
C19_TimeoutIsGraceful ==
    [][(pc = "stream" /\ stream.exc = "none" /\ stream'.exc = "TimeoutError")
         => /\ pc' = "done"
            /\ task'.status = "completed"
            /\ task'.result = [kind |-> "sentinel", text |-> <<>>]
      ]_vars

\* ------------------------------------------------------------------------
\* MCPServerManager.get_instance
\* ------------------------------------------------------------------------
\* C20: when several coroutines on the event loop call get_instance()
\* concurrently before initialization has completed, every call eventually
\* returns, all calls return the same instance, and initialize() is executed
\* exactly once.  (FairSpecSingleton)
C20_LazySingleton ==
    /\ [](\A k \in Coroutines :
            sg_co[k].pc = "returned"
              => /\ sg_co[k].ret = 1
                 /\ sg_inits = 1
                 /\ sg_initialized)
    /\ \A k \in Coroutines : (sg_co[k].pc # "new") ~> (sg_co[k].pc = "returned")

\* C21: a publish_message call whose first attempt fails drops the client it
\* used, builds a new one, and makes exactly one more attempt with it; when
\* that one fails too the call raises; no call makes more than two attempts
\* or delivers its message more than once.
C21_ReconnectOnce ==
    [][ /\ bus_call.tries <= 2 /\ bus_call.delivered <= 1
        /\ (bus_call'.pc = "raised" => bus_call'.tries = 2 /\ bus_call'.delivered = 0)
        /\ (bus_call.pc = "except" /\ bus_call' # bus_call =>
               /\ bus_client \in bus_closed'
               /\ bus_client' \notin bus_closed' \cup {bus_client}
               /\ bus_call'.used = Append(bus_call.used, bus_client')
               /\ bus_call'.tries = 2
               /\ bus_call'.sent <= bus_call.sent + 1
               /\ bus_call'.pc \in {"returned", "raised"}) ]_vars

\* a call has failed twice, on two different clients, and raised
C21_Witness ==
    /\ bus_call.pc = "raised"
    /\ Len(bus_call.used) = 2
    /\ bus_call.used[1] # bus_call.used[2]
    /\ bus_call.sent = 2

\* C22: once a cancelled listener task has finished, its subscription has
\* been unsubscribed and closed and its session id is no longer registered,
\* wherever the cancellation reached it.
C22_CleanCancellation ==
    \A l \in Listeners :
        listener[l].pc = "finished" =>
            listener[l].sub = "closed" /\ ~listener[l].online

\* C23: cancelling a listener that awaits a run it dispatched leaves that
\* run as it is.
C23_RunSurvivesCancellation ==
    [][\A l \in Listeners :
          (/\ listener[l].pc = "listening"
           /\ listener'[l].pc # "listening"
           /\ runs[l].phase \in {"created", "running"}) => runs'[l] = runs[l]]_vars

\* C24: a SIGINT that arrives while a run is in flight cancels the run's task
\* and leaves the process running.
C24_InterruptCancelsRun ==
    [][(pc \in {"loop", "stream", "handle"} /\ pc' \in {"cancelled", "exited"})
          => pc' = "cancelled"]_vars

\* C25: an iteration that dispatches a valid action appends exactly the two
\* entries Action and Observation to the scratchpad and leaves qa_history as
\* it is, whether the tool call succeeds or fails.
C25_ToolCallTouchesScratchpadOnly ==
    [][(pc = "handle" /\ Len(tool_calls') = Len(tool_calls) + 1)
          => /\ Len(scratchpad') = Len(scratchpad) + 2
             /\ scratchpad'[Len(scratchpad) + 1] = Pad("assistant", "Action")
             /\ scratchpad'[Len(scratchpad) + 2].role = "user"
             /\ scratchpad'[Len(scratchpad) + 2].kind \in {"Observation", "ObservationError"}
             /\ qa_history' = qa_history]_vars

\* C26: when the first turn is the single well-formed communication block
\* for target "B" with message "m", the first iteration publishes exactly
\* that message, appends the attempt and its observation to the scratchpad,
\* and the loop goes on, however the turn is cut into chunks.
C26_CommunicationDispatch ==
    (script = "comm_only" /\ Len(dispatched) >= 1)
        => /\ dispatched[1] = "communication"
           /\ Len(published) >= 1
           /\ published[1] = [target |-> <<"B">>, message |-> <<"m">>]
           /\ Len(scratchpad) >= 2
           /\ scratchpad[1] = Pad("assistant", "Communication")
           /\ scratchpad[2].role = "user"
           /\ scratchpad[2].kind \in {"Observation", "ObservationError"}

\* C27: between the iterations of the loop the scratchpad holds at most 60
\* entries and qa_history at most 80: a list that has outgrown its bound has
\* been cut to its most recent entries.
C27_CompactionBounds ==
    pc = "loop" => Len(scratchpad) <= 60 /\ Len(qa_history) <= 80

\* C28: the iteration that dispatches a final answer A appends A to
\* qa_history as an assistant message, emits the final-answer-end event and
\* ends the run with result A; once the run has ended no LLM call, tool call
\* or publish follows, and A is still the last entry of qa_history.
C28_FinalAnswerTerminal ==
    [][ /\ (pc = "handle" /\ Len(dispatched') > Len(dispatched)
                          /\ Last(dispatched') = "final_answer")
            => \E A \in {Strip(last_final_answer)} :
                  /\ A # <<>>
                  /\ qa_history' = Append(qa_history,
                                          [role |-> "assistant", kind |-> "text", text |-> A])
                  /\ emitted' = Append(emitted, "final_answer_end")
                  /\ task'.result = Answer(A)
                  /\ task'.status = "completed"
                  /\ pc' = "done"
                  /\ llm_calls' = llm_calls /\ tool_calls' = tool_calls
                  /\ published' = published
        /\ pc = "done"
            => /\ llm_calls' = llm_calls /\ tool_calls' = tool_calls
               /\ published' = published /\ qa_history' = qa_history
               /\ task' = task /\ pc' = "done" ]_vars

\* a run that called a tool in its first iteration has returned the final
\* answer of its second
C28_Witness ==
    /\ pc = "done"
    /\ Len(dispatched) = 2 /\ dispatched[1] = "action" /\ dispatched[2] = "final_answer"
    /\ task.result.kind = "answer"
    /\ Last(qa_history) = [role |-> "assistant", kind |-> "text", text |-> task.result.text]
    /\ Last(emitted) = "final_answer_end"
    /\ Len(tool_calls) = 1

\* the list a call has returned holds, in this order: the slots that are set,
\* by their rank in SlotOrder; the user and assistant entries of qa_history,
\* in their order; the task description; the scratchpad entries, in their
\* order; and nothing else
BuiltInOrder ==
    bm_out.called =>
        LET r   == bm_out.messages
            ctx == bm_in.ctx
            P   == {i \in 1..Len(SlotOrder) : ctx.slots[SlotOrder[i]] # NoMessage}
            np  == Cardinality(P)
            qa  == SelectSeq(ctx.qa_history, KeptInPrompt)
            nq  == Len(qa)
            nt  == IF bm_in.description # "" THEN 1 ELSE 0
        IN  /\ Len(r) = np + nq + nt + Len(bm_in.scratchpad)
            /\ \A i \in P : r[Cardinality({j \in P : j <= i})] = ctx.slots[SlotOrder[i]]
            /\ \A k \in 1..nq : r[np + k] = qa[k]
            /\ ((\A k \in 1..Len(ctx.qa_history) : KeptInPrompt(ctx.qa_history[k]))
                   => \A k \in 1..nq : r[np + k] = ctx.qa_history[k])
            /\ (nt = 1 => r[np + nq + 1] = [role |-> "user", content |-> bm_in.description])
            /\ \A k \in 1..Len(bm_in.scratchpad) : r[np + nq + nt + k] = bm_in.scratchpad[k]

C30_PartialAvailability ==
    [][\A k \in Coroutines :
          LET connected == {sg_sessions'[i] : i \in 1..Len(sg_sessions')}
          IN  /\ (sg_co[k].pc = "initialize" /\ sg_co'[k].pc # "initialize")
                  => /\ sg_co'[k].pc = "returned"
                     /\ connected = {p \in ConfiguredServers : sg_results'[p] = "ok"}
                     /\ Len(sg_sessions') = Cardinality(connected)
              /\ (sg_co[k].pc = "returned" /\ sg_co'[k].pc # "returned")
                  => /\ sg_co'[k].pc = "list_raised" <=> connected = {}
                     /\ sg_co'[k].pc = "listed" <=> connected # {}
                     /\ \A p \in sg_co'[k].answered : p \in connected
                           /\ ServerTools(p) \subseteq DOMAIN sg_co'[k].tools
                     /\ \A n \in DOMAIN sg_co'[k].tools : sg_co'[k].tools[n] \in connected]_vars

\* one provider failed and one succeeded, initialize() returned, and the
\* tools of the provider that succeeded have been listed
C30_Witness ==
    \E k \in Coroutines :
        /\ sg_co[k].pc = "listed"
        /\ sg_results["p1"] = "exception"
        /\ sg_results["p2"] = "ok"
        /\ sg_sessions = <<"p2">>
        /\ DOMAIN sg_co[k].tools = ServerTools("p2")

\* C31: when cleanup() returns, whether exit_stack.aclose() closed the
\* providers or raised, the session map and the tool cache are empty, the
\* cache timestamp is None and _initialized is False; as long as the class is
\* not initialized and no initialize() is under way nothing is connected or
\* cached, so nothing can be listed; and a get_instance() called then runs
\* initialize() again.
C31_CleanupResets ==
    [][/\ \A k \in Coroutines :
            /\ (sg_co[k].pc = "cleanup" /\ sg_co'[k].pc # "cleanup")
                => /\ sg_sessions' = <<>>
                   /\ sg_tool_cache' = EmptyCache
                   /\ sg_cache_timestamp' = "none"
                   /\ ~sg_initialized'
            /\ (sg_co[k].pc = "new" /\ sg_co'[k].pc # "new" /\ ~sg_initialized /\ sg_lock = "free")
                => /\ sg_co'[k].pc = "initialize"
                   /\ sg_inits' = sg_inits + 1
            /\ (sg_co[k].pc = "returned" /\ sg_co'[k].pc = "listed")
                => sg_initialized \/ sg_lock # "free"
       /\ (~sg_initialized' /\ sg_lock' = "free")
            => /\ sg_sessions' = <<>>
               /\ sg_tool_cache' = EmptyCache
               /\ sg_cache_timestamp' = "none"]_vars

\* tools were listed, cleanup() returned, and the next get_instance() has run
\* initialize() a second time
C31_Witness ==
    /\ \E k \in Coroutines : sg_co[k].pc = "cleaned" /\ sg_co[k].tools # EmptyCache
    /\ \E k \in Coroutines : sg_co[k].pc = "returned"
    /\ sg_inits = 2
    /\ sg_initialized

\* C32: in every iteration whose listing of the online sessions succeeds, the
\* active_sessions slot the messages of the iteration are built from is one
\* system message whose lines between header and footer are exactly one
\* bullet per registered session other than the kernel's own, or the single
\* line "no other sessions online" when there is none; there is no bullet
\* of the own session id.
C32_PeersExcludeSelf ==
    [][(pc = "loop" /\ pc' = "stream" /\ redis_up)
          => LET c == ctx_active_sessions'.content
                 others == redis_sessions \ {SessionId}
             IN  /\ ctx_active_sessions'.role = "system"
                 /\ c[1] = LineHeader /\ c[Len(c)] = LineFooter
                 /\ Len(c) = 2 + (IF others = {} THEN 1 ELSE Cardinality(others))
                 /\ \A s \in SessionIds :
                        s \in others <=> \E i \in 2..(Len(c) - 1) : c[i] = Bullet(s)
                 /\ others = {} <=> \E i \in 2..(Len(c) - 1) : c[i] = LineNoOthers
                 /\ \A i \in 1..Len(c) : c[i] # Bullet(SessionId)]_vars

\* an iteration has listed the two peers while the own session is registered too
C32_Witness ==
    /\ pc = "stream"
    /\ task.current_iteration = 2
    /\ redis_sessions = SessionIds
    /\ ctx_active_sessions.content = <<LineHeader, Bullet("A"), Bullet("C"), LineFooter>>

\* the case an iteration with these captured payloads takes and the payload
\* it dispatches
DispatchedPayload(lfa, lap, lcp) ==
    LET a == ParseActionJson(lap)
        c == ParseCommunicationJson(lcp)
        case == IF a.kind = "none" THEN "raise"
                ELSE DispatchCase(lfa, a.name, lap, c.target, lcp)
    IN  <<case, IF case = "final_answer" THEN lfa
                ELSE IF case = "action" THEN lap
                ELSE IF case = "communication" THEN lcp
                ELSE <<>>>>

\* C33: once a chunk of a turn has produced an end marker, at most 2 further
\* chunks of the turn are consumed, and what the iteration dispatches is what
\* was captured at the end marker: the chunks of the grace window do not
\* change it.  (SpecKernel)
C33_EarlyStopGrace ==
    [][(pc = "stream" /\ stream.chunks_after_end >= 1 /\ pc' \in {"stream", "handle"})
          => /\ stream'.chunks_after_end - 1 <= 2
             /\ pc' = "stream" => stream'.chunks_after_end - 1 < 2
             /\ DispatchedPayload(last_final_answer', last_action_payload',
                                  last_communication_payload')
                  = DispatchedPayload(last_final_answer, last_action_payload,
                                      last_communication_payload)]_vars

\* C34: with providers that answer every discovery RPC, whenever the cache
\* counts as valid it holds every tool the connected providers report, under
\* every interleaving of the callers; and no call_tool ends with
\* tool-not-found for the tool that every provider lists.  (SpecGatewayUp)
C34_CacheCompleteness ==
    [][/\ IsCacheValid(cache_timestamp', clock')
            => \A i \in 1..Len(Servers) : ServerTools(Servers[i]) \subseteq DOMAIN tool_cache'
       /\ \A c \in Clients :
            (gw'[c].error = "ToolNotFound" /\ gw[c].error # "ToolNotFound")
                => \E i \in 1..Len(Servers) : gw'[c].name \notin ServerTools(Servers[i])]_vars

\* C35: process_chunk returns normally for every text and every chunking,
\* degenerate tags included; it never raises.  (SpecFilter)
C35_ParserTotal == flt_status # "raised"

\* C36: however execute_task ends, by a return, by an exception of the loop
\* or by the cancellation of the task that runs it, task.status is
\* completed, failed or cancelled, never running.  (SpecCancel)
C36_NeverLeftRunning ==
    pc \in {"done", "failed", "cancelled"} => task.status \in {"completed", "failed", "cancelled"}

\* C37: with separate Session objects for one session_id, after any sequence
\* of append_qa calls through either object the qa_history of the session
\* file holds every entry that was appended.  (SpecSharedFile)
C37_NoLostHistory ==
    \A n \in 1..so_count :
        \E j \in 1..Len(so_file.qa_history) :
            so_file.qa_history[j].content = JsonEscape(EntryText(n))

\* the positions of the entries of role r in the history h
EntriesOf(h, r) == {i \in DOMAIN h : h[i].role = r}

\* the handled messages for which a listener started a run
Dispatched == {i \in DOMAIN handled : handled[i].ran}

\* the runs that were created and have not recorded their description yet
NotBegun == {c \in Callers : runs[c].phase = "created"}

Alive == {"listening", "poll_sleep"}

\* C39: the listener survives failures.  A run that raises and a polling
\* error leave the listener alive, subscribed and registered; a listener
\* that is alive is subscribed and registered; and a listener leaves its
\* loop in a step that cancels its task, in no other.  (SpecResilient)
C39_ListenerSurvives ==
    [][\A l \in Listeners :
          /\ (RunFail(l) \/ PollError(l) \/ PollResume(l))
                => /\ listener'[l].pc \in Alive
                   /\ listener'[l].sub = "subscribed"
                   /\ listener'[l].online
          /\ listener'[l].pc \in Alive
                => listener'[l].sub = "subscribed" /\ listener'[l].online
          /\ (listener[l].pc \in Alive /\ listener'[l].pc \notin Alive)
                => CancelListener(l)]_vars

\* after a run of the monitor failed and a polling error, the monitor has
\* handled the next message and its run is in progress
C39_Witness ==
    /\ Cardinality({i \in Dispatched : handled[i].listener = "monitor"}) = 2
    /\ runs["monitor"].phase = "running"
    /\ EntriesOf(qa_history, "assistant") = {}
    /\ listener["monitor"].pc = "listening"
    /\ listener["monitor"].poll_errors = MaxPollErrors

\* C40: no state carries over between turns.  Every iteration starts with
\* the three captured payloads empty and a new parser in state Outside with
\* empty buffers; a payload an iteration dispatches was captured from the
\* buffer its own turn filled; and a turn that is thinking only, after a turn
\* whose action was dispatched, dispatches the fallback, not the action
\* again.  (SpecTurns)
C40_NoCarryOver ==
    [][/\ (pc = "loop" /\ pc' = "stream")
            => /\ last_action_payload' = <<>>
               /\ last_communication_payload' = <<>>
               /\ last_final_answer' = <<>>
               /\ stream' = NewStream
               /\ stream'.xml_filter = NewFilter
       /\ pc' = "handle"
            => /\ last_action_payload' # <<>> => stream'.action_buf # <<>>
               /\ last_communication_payload' # <<>> => stream'.communication_buf # <<>>
               /\ last_final_answer' # <<>> => stream'.final_buf # <<>>
       /\ (pc' = "handle" /\ TurnText(script', task'.current_iteration) = TxtThinking)
            => DispatchedPayload(last_final_answer', last_action_payload',
                                 last_communication_payload') = <<"fallback", <<>>>>]_vars

\* the second turn has been read to its end after the action of the first
\* turn was dispatched, and nothing of the first turn is left
C40_Witness ==
    /\ pc = "handle"
    /\ task.current_iteration = 2
    /\ Len(tool_calls) = 1
    /\ last_action_payload = <<>>
    /\ stream.action_buf = <<>>
====
